---- MODULE Spec2Model ----
(***************************************************************************)
(* Observation-and-analytics pipeline of py-backtester:                    *)
(*   Recorder    (src/src/reporting/observer.py)                           *)
(*   Loader      (src/src/reporting/statistics/loader.py)                  *)
(*   Accumulators(src/src/reporting/statistics/accumulators.py)            *)
(*   Report Engine (src/src/reporting/statistics/engine.py)                *)
(*   Downsampler (src/src/reporting/dashboard/downsampler.py)              *)
(* Each component has its own specification over its own variables; the    *)
(* variables of the other components stay at their initial value.          *)
(***************************************************************************)
EXTENDS Integers, Sequences, FiniteSets, TLC

\* ------------------------------------------------------------------------
\* Bounds of the model
\* ------------------------------------------------------------------------
\* simulation ticks the driver runs (one pack per tick)
MaxTicks == 2
\* observe() calls per tick
MaxPool == 2
\* flush attempts that fail with an I/O error in one run
MaxFail == 1
\* rows of a stream fed to a set of accumulators
MaxRows == 3
\* return periods counted by a StreamingReturns accumulator (caps the calls
\* that recompute the returns)
MaxReturns == 3

\* rows persisted in the state and the trade stream together, for a Report
\* Engine run
MaxStreamRows == 2

\* calls of BacktestReportEngine.run()
MaxRuns == 2

\* data rows of the state stream a Downsampler reads
MaxDsRows == 5

\* the target_size a Downsampler is constructed with
MaxTarget == 6

\* the values fed to a WelfordAccumulator are the integers 1..MaxValue
MaxValue == 5
\* the number of values fed to a WelfordAccumulator
MaxFed == 5
\* the records observed in one tick of an Observer checked on its own
MaxSeen == 3
\* the points handed to a call of _lttb_indices on its own
MaxPoints == 6
\* the target of such a call is 0..MaxLttbTarget
MaxLttbTarget == 5
\* PortfolioManager: the initial capital is 1..MaxCap, an action trades
\* 1..MaxShares shares, and MaxCalls exec_action calls are made
MaxCap == 3
MaxShares == 2
MaxCalls == 3

\* ------------------------------------------------------------------------
\* Shared vocabulary
\* ------------------------------------------------------------------------
\* Python's None / an empty CSV cell
None == "None"

\* ObservationType, in enum order (STATE, TRADE)
ObservationType == <<"STATE", "TRADE">>

Kinds == {ObservationType[i] : i \in 1..Len(ObservationType)}

\* ObservationContext.tickers: the known entities
Tickers == <<"A", "B">>

TickerSet == {Tickers[i] : i \in 1..Len(Tickers)}

\* constants.OBS_FIELDS_NO_PREFIX: the fields written without a namespace prefix
OBS_FIELDS_NO_PREFIX == {"dt", "ticker"}

\* Observer.observation_batch_size (constants.DEFAULT_OBSERVATION_BATCH_SIZE)
DEFAULT_OBSERVATION_BATCH_SIZE == 3

\* Observable.obs_fields() of the observable classes, by namespace prefix
ObsFields(pfx) ==
    CASE pfx = "s"   -> <<"dt", "ticker", "close", "volume">>
      [] pfx = "h"   -> <<"ticker", "type", "num_shares">>
      [] pfx = "cap" -> <<"cash", "debt">>
      [] pfx = "a"   -> <<"dt", "ticker", "type", "num_shares">>

\* Observer.__get_field_name / ObservationContext._get_fields: the output column
\* of attribute f of an observable with prefix pfx.  Prefixed names are kept as
\* the pair <<pfx, f>>, unprefixed ones as <<"", f>>.
GetFieldName(f, pfx) ==
    IF f \in OBS_FIELDS_NO_PREFIX THEN <<"", f>> ELSE <<pfx, f>>

\* the prefixes of the observable classes of a kind, in subclass order
KindPrefixes(k) ==
    IF k = "STATE" THEN <<"s", "h", "cap">> ELSE <<"a">>

\* ObservationContext._register_obs_field_names: the declared columns of a kind
\* (as the key set of the row dict pack() builds)
FieldNamesOf(k) ==
    UNION {{GetFieldName(ObsFields(KindPrefixes(k)[i])[j], KindPrefixes(k)[i]) :
                j \in 1..Len(ObsFields(KindPrefixes(k)[i]))} :
           i \in 1..Len(KindPrefixes(k))}

\* ObservationContext.obs_field_names
ObsFieldNames == [k \in Kinds |-> FieldNamesOf(k)]

\* the row pack() starts from: every declared column None
EmptyRow == [k \in Kinds |-> [c \in ObsFieldNames[k] |-> None]]

\* ------------------------------------------------------------------------
\* Variables
\* ------------------------------------------------------------------------
VARIABLES
    \* Recorder (Observer)
    obs_pool,      \* kind -> insertion-ordered dict: sequence of [pfx, obs]
    obs_slices,    \* kind -> buffer of packed rows
    num_records,   \* kind -> metadata.num_records
    stream_file,   \* kind -> [exists, lines]: the persisted CSV
    meta_file,     \* kind -> [exists, num_records]: the persisted metadata
    tick,          \* ticks packed so far (the driver's loop index)
    io_failures,   \* flush attempts that failed so far
    rec_pc,        \* "running" | "done" (after shutdown)
    packed         \* kind -> every row pack() has appended to the buffer, in order

VARIABLES
    \* one set of accumulators driven page by page
    acc_kind,      \* the stream the set belongs to: "STATE" | "TRADE"
    acc_rows,      \* the rows fed so far, in order
    acc_pages,     \* update() calls so far
    acc_set,       \* the accumulators' state
    acc_called     \* a result() call was made on the set

VARIABLES
    \* Report Engine: the persisted streams it reads and one engine instance
    eng_stream,    \* kind -> [exists, rows]: the stream file and its data rows
    eng_metrics,   \* the MetricRepository of the instance
    eng_reports    \* the outcome of every run() so far, in order

VARIABLES
    \* Downsampler: the persisted streams it reads, its parameters, its output
    ds_rows,        \* the data rows of the state stream
    ds_trade_dts,   \* the timestamps of the trade stream
    ds_meta,        \* [exists, num_records]: the state stream's metadata file
    ds_target_size, \* Downsampler.target_size
    ds_chunk_size,  \* Downsampler.chunk_size
    ds_out,         \* the rows of plot_data.csv
    ds_ran          \* run() has returned

VARIABLES
    \* one TotalReturn and one PortfolioValueSeries accumulator fed pages whose
    \* rows arrive in any order
    ord_pages,     \* the pages fed so far, in arrival order
    ord_tr,        \* the TotalReturnAccumulator
    ord_pv         \* PortfolioValueTimeSeriesAccumulator._pv_by_time

VARIABLES
    \* the driver (BacktestManager) and the Loaders of its Report Engine
    drv_pc,        \* "init" | "constructed" | "reported" | "raised"
    ldr_meta,      \* kind -> what ObservationLoader.__init__ read as metadata
    ldr_out,       \* kind -> what ObservationLoader.batches() yielded
    ldr_reads      \* the Loader's reads: [kind, file, rec_pc at the read]

VARIABLES
    \* one WelfordAccumulator fed values one at a time
    wel_values,    \* the values fed so far, in order
    wel            \* the accumulator: [count, mean, m2]

VARIABLES
    \* one call of _lttb_indices
    lttb_x,        \* the argument x
    lttb_y,        \* the argument y
    lttb_target,   \* the argument target
    lttb_out       \* the list returned; <<-1>> before the call

VARIABLES
    \* one Observer pool of one tick, fed any records, and its merge
    pk_pool,       \* the STATE obs_pool
    pk_seen,       \* the records observed, in the order of the observe() calls
    pk_rows        \* the rows pack() built of the pool; <<>> before pack()

VARIABLES
    \* PortfolioManager
    pm_cash,       \* capital_state.cash
    pm_holdings,   \* holdings.holdings: ticker -> [pps, num_shares]
    pm_last        \* the last exec_action call: its number, arguments, outcome
                   \* and the cash and holdings before it

recVars == <<obs_pool, obs_slices, num_records, stream_file, meta_file, tick,
             io_failures, rec_pc, packed>>

accVars == <<acc_kind, acc_rows, acc_pages, acc_set, acc_called>>

engVars == <<eng_stream, eng_metrics, eng_reports>>

dsVars == <<ds_rows, ds_trade_dts, ds_meta, ds_target_size, ds_chunk_size, ds_out,
            ds_ran>>

ordVars == <<ord_pages, ord_tr, ord_pv>>

drvVars == <<drv_pc, ldr_meta, ldr_out, ldr_reads>>

welVars == <<wel_values, wel>>

lttbVars == <<lttb_x, lttb_y, lttb_target, lttb_out>>

pkVars == <<pk_pool, pk_seen, pk_rows>>

pmVars == <<pm_cash, pm_holdings, pm_last>>

\* the variables of the components checked on their own
unitVars == <<welVars, lttbVars, pkVars, pmVars>>

vars == <<recVars, accVars, engVars, dsVars, ordVars, drvVars, unitVars>>

\* ------------------------------------------------------------------------
\* Recorder
\* ------------------------------------------------------------------------
\* the lines of a persisted stream: the header DictWriter.writeheader() writes
\* and one line per row
HeaderLine(k) == [hdr |-> TRUE, cells |-> [c \in ObsFieldNames[k] |-> c[2]]]

RowLines(slices) ==
    [i \in 1..Len(slices) |-> [hdr |-> FALSE, cells |-> slices[i]]]

\* The observables the driver hands to observe() in tick t
\* (BacktestManager.backtest): the capital slice (bound to no ticker), the stock
\* slice of the traded ticker, an executed trade action, and an object that is
\* of neither observation type.  The Recorder never computes with a field's
\* value, so values are kept as the text csv writes for them.
ObsInputs(t) ==
    {[type |-> "STATE", pfx |-> "cap", ticker |-> None,
      json |-> <<<<"cash", "1">>, <<"debt", "0">>>>],
     [type |-> "STATE", pfx |-> "s", ticker |-> Tickers[1],
      json |-> <<<<"dt", ToString(t)>>, <<"ticker", Tickers[1]>>,
                 <<"close", "1">>, <<"volume", "1">>>>],
     [type |-> "TRADE", pfx |-> "a", ticker |-> Tickers[2],
      json |-> <<<<"dt", ToString(t)>>, <<"ticker", Tickers[2]>>,
                 <<"type", "buy">>, <<"num_shares", "1">>>>],
     [type |-> "OTHER", pfx |-> "x", ticker |-> None, json |-> <<>>]}

PoolSize(pool) ==
    LET RECURSIVE Sum(_)
        Sum(i) == IF i = 0 THEN 0 ELSE Len(pool[i].obs) + Sum(i - 1)
    IN Sum(Len(pool))

\* obs_pool[pfx].append(obs) on a defaultdict(list): a new prefix is inserted at
\* the end of the dict, an existing one keeps its place
PoolAppend(pool, o) ==
    IF \E i \in 1..Len(pool) : pool[i].pfx = o.pfx
    THEN [i \in 1..Len(pool) |->
            IF pool[i].pfx = o.pfx
            THEN [pool[i] EXCEPT !.obs = Append(@, o)]
            ELSE pool[i]]
    ELSE Append(pool, [pfx |-> o.pfx, obs |-> <<o>>])

\* Observer.observe
Observe(o) ==
    /\ rec_pc = "running"
    /\ tick < MaxTicks
    /\ PoolSize(obs_pool["STATE"]) + PoolSize(obs_pool["TRADE"]) < MaxPool
    /\ obs_pool' = IF o.type \in Kinds
                   THEN [obs_pool EXCEPT ![o.type] = PoolAppend(@, o)]
                   ELSE obs_pool
    /\ UNCHANGED <<obs_slices, num_records, stream_file, meta_file, tick,
                   io_failures, rec_pc, packed>>

\* the values of obs.ticker that `if obs.ticker:` takes as no entity binding
Unbound == {None, ""}

\* the writes of one observable into the merged rows without the test of
\* obs.ticker: each field goes to every row
WriteObsToAll(merged, o, pfx) ==
    LET RECURSIVE W(_, _)
        W(m, j) ==
            IF j > Len(o.json) THEN m
            ELSE LET col == GetFieldName(o.json[j][1], pfx)
                     val == o.json[j][2]
                 IN W([tk \in TickerSet |-> [m[tk] EXCEPT ![col] = val]], j + 1)
    IN W(merged, 1)

\* the writes of one observable into the merged rows: each field goes to the
\* row of the observable's ticker, or to every row if it has none
WriteObs(merged, o, pfx) ==
    LET RECURSIVE W(_, _)
        W(m, j) ==
            IF j > Len(o.json) THEN m
            ELSE LET col == GetFieldName(o.json[j][1], pfx)
                     val == o.json[j][2]
                 IN W([tk \in TickerSet |->
                         IF o.ticker \in Unbound \/ o.ticker = tk
                         THEN [m[tk] EXCEPT ![col] = val]
                         ELSE m[tk]], j + 1)
    IN W(merged, 1)

\* the merge loop building rows only for a kind with a pooled record
MergePoolTraded(k, pool) ==
    LET empty == [tk \in TickerSet |-> EmptyRow[k]]
        RECURSIVE ByObs(_, _, _)
        ByObs(m, i, j) ==
            IF j > Len(pool[i].obs) THEN m
            ELSE ByObs(WriteObs(m, pool[i].obs[j], pool[i].pfx), i, j + 1)
        RECURSIVE ByPfx(_, _)
        ByPfx(m, i) ==
            IF i > Len(pool) THEN m ELSE ByPfx(ByObs(m, i, 1), i + 1)
        merged == ByPfx(empty, 1)
    IN IF pool = <<>> THEN <<>> ELSE [i \in 1..Len(Tickers) |-> merged[Tickers[i]]]

\* the merge loop of pack_observation_pool over one kind's pool
MergePool(k, pool) ==
    LET empty == [tk \in TickerSet |-> EmptyRow[k]]
        RECURSIVE ByObs(_, _, _)
        ByObs(m, i, j) ==
            IF j > Len(pool[i].obs) THEN m
            ELSE ByObs(WriteObs(m, pool[i].obs[j], pool[i].pfx), i, j + 1)
        RECURSIVE ByPfx(_, _)
        ByPfx(m, i) ==
            IF i > Len(pool) THEN m ELSE ByPfx(ByObs(m, i, 1), i + 1)
        merged == ByPfx(empty, 1)
    IN [i \in 1..Len(Tickers) |-> merged[Tickers[i]]]

\* The outcomes of one flush attempt: success, or an I/O error raised by open()
\* (nothing written) or while writing (the file exists; the header, if one was
\* due, and a prefix of the rows may have reached it).
OkOutcome == [ok |-> TRUE, opened |-> TRUE, hdr |-> TRUE, j |-> 0]

FailOutcomes(file, n) ==
    {[ok |-> FALSE, opened |-> FALSE, hdr |-> FALSE, j |-> 0]}
    \cup {[ok |-> FALSE, opened |-> TRUE, hdr |-> ~file.exists, j |-> j] :
            j \in 0..n}
    \cup (IF file.exists THEN {}
          ELSE {[ok |-> FALSE, opened |-> TRUE, hdr |-> FALSE, j |-> 0]})

\* the outcomes an attempt to flush these rows can have; an attempt with an
\* empty buffer returns before any I/O
FlushOutcomes(file, slices, attempted) ==
    IF ~attempted \/ slices = <<>> THEN {OkOutcome}
    ELSE {OkOutcome} \cup FailOutcomes(file, Len(slices))

\* what an attempt leaves in the file
FileAfter(k, file, slices, oc) ==
    IF ~oc.opened THEN file
    ELSE LET header == IF ~file.exists /\ oc.hdr THEN <<HeaderLine(k)>> ELSE <<>>
             rows == IF oc.ok THEN slices ELSE SubSeq(slices, 1, oc.j)
         IN [exists |-> TRUE,
             lines |-> file.lines \o header \o RowLines(rows)]

\* Observer.__flush_observation_slices with the buffer reset after the try
\* block, whether the write succeeded or not
FlushObservationSlicesDropping(s, oc) ==
    IF s.slices = <<>> THEN s
    ELSE [slices |-> <<>>,
          num    |-> s.num + Len(s.slices),
          file   |-> FileAfter(s.kind, s.file, s.slices, oc),
          kind   |-> s.kind]

\* Observer.__flush_observation_slices on the state s = [kind, slices, num,
\* file] of one kind.  ctx.file_paths_obs and ctx.obs_field_names always hold both kinds
\* (ObservationContext.__init__), so those two early returns are never taken.
FlushObservationSlices(s, oc) ==
    IF s.slices = <<>> THEN s
    ELSE [slices |-> IF oc.ok THEN <<>> ELSE s.slices,
          num    |-> s.num + Len(s.slices),
          file   |-> FileAfter(s.kind, s.file, s.slices, oc),
          kind   |-> s.kind]

KindState(k, slices) ==
    [slices |-> slices, num |-> num_records[k], file |-> stream_file[k],
     kind |-> k]

Failed(oc) == IF oc.ok THEN 0 ELSE 1

\* Observer.pack_observation_pool: merge, extend the buffers, clear the pools
\* and flush each kind whose buffer reached the threshold
PackObservationPool ==
    /\ rec_pc = "running"
    /\ tick < MaxTicks
    /\ \E mS \in {MergePool("STATE", obs_pool["STATE"])},
          mT \in {MergePool("TRADE", obs_pool["TRADE"])} :
        /\ packed' = [STATE |-> packed["STATE"] \o mS,
                      TRADE |-> packed["TRADE"] \o mT]
        /\ LET bufS == obs_slices["STATE"] \o mS
               bufT == obs_slices["TRADE"] \o mT
               dueS == Len(bufS) >= DEFAULT_OBSERVATION_BATCH_SIZE
               dueT == Len(bufT) >= DEFAULT_OBSERVATION_BATCH_SIZE
           IN \E ocS \in FlushOutcomes(stream_file["STATE"], bufS, dueS),
                 ocT \in FlushOutcomes(stream_file["TRADE"], bufT, dueT) :
                LET aS == IF dueS
                          THEN FlushObservationSlices(KindState("STATE", bufS), ocS)
                          ELSE KindState("STATE", bufS)
                    aT == IF dueT
                          THEN FlushObservationSlices(KindState("TRADE", bufT), ocT)
                          ELSE KindState("TRADE", bufT)
                IN /\ io_failures + Failed(ocS) + Failed(ocT) <= MaxFail
                   /\ obs_slices' = [STATE |-> aS.slices, TRADE |-> aT.slices]
                   /\ num_records' = [STATE |-> aS.num, TRADE |-> aT.num]
                   /\ stream_file' = [STATE |-> aS.file, TRADE |-> aT.file]
                   /\ io_failures' = io_failures + Failed(ocS) + Failed(ocT)
    /\ obs_pool' = [k \in Kinds |-> <<>>]
    /\ tick' = tick + 1
    /\ UNCHANGED <<meta_file, rec_pc>>

\* Observer.shutdown: flush each kind, then write its metadata file
Shutdown ==
    /\ rec_pc = "running"
    /\ \E ocS \in FlushOutcomes(stream_file["STATE"], obs_slices["STATE"], TRUE),
          ocT \in FlushOutcomes(stream_file["TRADE"], obs_slices["TRADE"], TRUE) :
         LET aS == FlushObservationSlices(KindState("STATE", obs_slices["STATE"]), ocS)
             aT == FlushObservationSlices(KindState("TRADE", obs_slices["TRADE"]), ocT)
         IN /\ io_failures + Failed(ocS) + Failed(ocT) <= MaxFail
            /\ obs_slices' = [STATE |-> aS.slices, TRADE |-> aT.slices]
            /\ num_records' = [STATE |-> aS.num, TRADE |-> aT.num]
            /\ stream_file' = [STATE |-> aS.file, TRADE |-> aT.file]
            /\ meta_file' = [STATE |-> [exists |-> TRUE, num_records |-> aS.num],
                             TRADE |-> [exists |-> TRUE, num_records |-> aT.num]]
            /\ io_failures' = io_failures + Failed(ocS) + Failed(ocT)
    /\ rec_pc' = "done"
    /\ UNCHANGED <<obs_pool, tick, packed>>

RecInit ==
    /\ obs_pool = [k \in Kinds |-> <<>>]
    /\ obs_slices = [k \in Kinds |-> <<>>]
    /\ num_records = [k \in Kinds |-> 0]
    /\ stream_file = [k \in Kinds |-> [exists |-> FALSE, lines |-> <<>>]]
    /\ meta_file = [k \in Kinds |-> [exists |-> FALSE, num_records |-> 0]]
    /\ tick = 0
    /\ io_failures = 0
    /\ rec_pc = "running"
    /\ packed = [k \in Kinds |-> <<>>]

RecNext ==
    \/ \E o \in ObsInputs(tick + 1) : Observe(o)
    \/ PackObservationPool
    \/ Shutdown

\* ------------------------------------------------------------------------
\* Arithmetic of the statistics: Python floats are modelled by exact rationals
\* <<n, d>> in lowest terms with d > 0
\* ------------------------------------------------------------------------
Abs(x) == IF x < 0 THEN -x ELSE x

RECURSIVE GCD(_, _)
GCD(a, b) == IF b = 0 THEN a ELSE GCD(b, a % b)

Rat(n, d) ==
    LET g == GCD(Abs(n), Abs(d))
        sg == IF d < 0 THEN -1 ELSE 1
    IN <<sg * (n \div g), sg * (d \div g)>>

RInt(n) == <<n, 1>>

RAdd(a, b) == Rat(a[1] * b[2] + b[1] * a[2], a[2] * b[2])

RSub(a, b) == Rat(a[1] * b[2] - b[1] * a[2], a[2] * b[2])

\* common factors are cancelled before multiplying
RMul(a, b) ==
    LET x == Rat(a[1], b[2])
        y == Rat(b[1], a[2])
    IN Rat(x[1] * y[1], x[2] * y[2])

\* b # 0
RDiv(a, b) == RMul(a, Rat(b[2], b[1]))

RLt(a, b) == a[1] * b[2] < b[1] * a[2]

RMax(a, b) == IF RLt(a, b) THEN b ELSE a

RSign(a) == IF a[1] < 0 THEN -1 ELSE IF a[1] = 0 THEN 0 ELSE 1

\* round(x, digits) of Python: to the nearest multiple of 10^-digits, a tie to
\* the even one
Pow10(k) == IF k = 2 THEN 100 ELSE 10000

RoundTo(a, digits) ==
    LET scaled == a[1] * Pow10(digits)
        q == scaled \div a[2]
        twice == 2 * (scaled - q * a[2])
        up == twice > a[2] \/ (twice = a[2] /\ q % 2 = 1)
    IN Rat(IF up THEN q + 1 ELSE q, Pow10(digits))

\* ------------------------------------------------------------------------
\* Rows of a persisted stream as the Loader yields them (pd.read_csv followed
\* by pd.to_datetime on "dt").  Timestamps are whole days 1, 2, ...; an empty
\* timestamp cell is NaT, an empty numeric cell is NaN.  Every value a run
\* records is non-negative, so NaT and NaN are kept as values below that range.
\* ------------------------------------------------------------------------
NaT == 0

NaN == -1

\* pd.to_numeric(col, errors="coerce").fillna(0)
ToNumeric(x) == IF x = NaN THEN 0 ELSE x

\* b["_pv"] = cash + h_shares * s_close
PV(row) ==
    ToNumeric(row.cap_cash) + ToNumeric(row.h_num_shares) * ToNumeric(row.s_close)

\* DataFrame.sort_values("dt"): ascending, NaT last, rows of equal dt in their
\* order in the page
DtBefore(a, b) == a.dt # NaT /\ (b.dt = NaT \/ a.dt < b.dt)

RECURSIVE InsertByDt(_, _)
InsertByDt(sorted, r) ==
    IF sorted = <<>> THEN <<r>>
    ELSE IF DtBefore(r, sorted[Len(sorted)])
         THEN Append(InsertByDt(SubSeq(sorted, 1, Len(sorted) - 1), r),
                     sorted[Len(sorted)])
         ELSE Append(sorted, r)

RECURSIVE SortValuesDt(_)
SortValuesDt(rows) ==
    IF rows = <<>> THEN <<>>
    ELSE InsertByDt(SortValuesDt(SubSeq(rows, 1, Len(rows) - 1)), rows[Len(rows)])

Range(seq) == {seq[i] : i \in 1..Len(seq)}

SetMax(S) == CHOOSE x \in S : \A y \in S : y <= x

SetMin(S) == CHOOSE x \in S : \A y \in S : x <= y

\* the elements of a set of integers in ascending order
RECURSIVE Ascending(_)
Ascending(S) ==
    IF S = {} THEN <<>> ELSE <<SetMin(S)>> \o Ascending(S \ {SetMin(S)})

\* ------------------------------------------------------------------------
\* Accumulators (accumulators.py)
\* ------------------------------------------------------------------------
\* WelfordAccumulator
WelfordInit == [count |-> 0, mean |-> RInt(0), m2 |-> RInt(0)]

WelfordUpdate(w, value) ==
    LET count == w.count + 1
        delta == RSub(value, w.mean)
        mean == RAdd(w.mean, RDiv(delta, RInt(count)))
        delta2 == RSub(value, mean)
    IN [count |-> count, mean |-> mean, m2 |-> RAdd(w.m2, RMul(delta, delta2))]

\* the sample variance, m2 / (count - 1), in place of the population variance
WelfordVarianceSample(w) ==
    IF w.count > 1 THEN RDiv(w.m2, RInt(w.count - 1)) ELSE RInt(0)

\* WelfordAccumulator.variance
WelfordVariance(w) ==
    IF w.count > 1 THEN RDiv(w.m2, RInt(w.count)) ELSE RInt(0)

\* StreamingReturnsAccumulator(risk_free_rate_annual): the engine's default
RiskFreeAnnual == RInt(0)

\* the state of one set of state-stream accumulators
\* (_build_state_accumulators); an unset Optional timestamp is NaT
StateAccInit ==
    [pv_by_time |-> <<>>,
     tr |-> [first_ts |-> NaT, first_pv |-> 0, last_ts |-> NaT, last_pv |-> 0],
     sr |-> [pv_series |-> <<>>, all_returns |-> WelfordInit,
             downside_returns |-> WelfordInit, first_ts |-> NaT,
             last_ts |-> NaT, num_returns |-> 0],
     exposure |-> [total_obs |-> 0, exposed_obs |-> 0],
     final |-> <<>>,
     period |-> [start |-> NaT, end |-> NaT]]

\* PortfolioValueTimeSeriesAccumulator.update keeping the value of the row seen
\* last for a timestamp instead of the largest one
PvSeriesUpdateLast(pv_by_time, batch) ==
    LET RECURSIVE U(_, _)
        U(d, i) ==
            IF i > Len(batch) THEN d
            ELSE LET ts == batch[i].dt
                     pv == PV(batch[i])
                 IN U([t \in DOMAIN d \cup {ts} |-> IF t = ts THEN pv ELSE d[t]],
                      i + 1)
    IN U(pv_by_time, 1)

\* PortfolioValueTimeSeriesAccumulator.update
PvSeriesUpdate(pv_by_time, batch) ==
    LET RECURSIVE U(_, _)
        U(d, i) ==
            IF i > Len(batch) THEN d
            ELSE LET ts == batch[i].dt
                     pv == PV(batch[i])
                     current == IF ts \in DOMAIN d THEN d[ts] ELSE 0
                     new == IF current > pv THEN current ELSE pv
                 IN U([t \in DOMAIN d \cup {ts} |-> IF t = ts THEN new ELSE d[t]],
                      i + 1)
    IN U(pv_by_time, 1)

\* PortfolioValueTimeSeriesAccumulator.get_series: <<ts, pv>> sorted by ts
GetSeries(pv_by_time) ==
    LET ts == Ascending(DOMAIN pv_by_time)
    IN [i \in 1..Len(ts) |-> <<ts[i], pv_by_time[ts[i]]>>]

\* TotalReturnAccumulator.update selecting by arrival order: the first row
\* ever seen is the first value, the row seen last is the last value
TotalReturnUpdateArrival(tr, batch) ==
    LET RECURSIVE U(_, _)
        U(t, i) ==
            IF i > Len(batch) THEN t
            ELSE LET ts == batch[i].dt
                     pv == PV(batch[i])
                     t1 == IF t.first_ts = NaT
                           THEN [t EXCEPT !.first_ts = ts, !.first_pv = pv]
                           ELSE t
                 IN U([t1 EXCEPT !.last_ts = ts, !.last_pv = pv], i + 1)
    IN U(tr, 1)

\* TotalReturnAccumulator.update
TotalReturnUpdate(tr, batch) ==
    LET b == SortValuesDt(batch)
        RECURSIVE U(_, _)
        U(t, i) ==
            IF i > Len(b) THEN t
            ELSE LET ts == b[i].dt
                     pv == PV(b[i])
                     t1 == IF t.first_ts = NaT \/ ts < t.first_ts
                           THEN [t EXCEPT !.first_ts = ts, !.first_pv = pv]
                           ELSE t
                     t2 == IF t1.last_ts = NaT \/ ts > t1.last_ts
                           THEN [t1 EXCEPT !.last_ts = ts, !.last_pv = pv]
                           ELSE t1
                 IN U(t2, i + 1)
    IN U(tr, 1)

\* StreamingReturnsAccumulator.update: one (ts, max pv) per timestamp of the
\* page, in ascending order
StreamingReturnsUpdate(sr, batch) ==
    LET keys == Ascending({batch[i].dt : i \in 1..Len(batch)} \ {NaT})
        RECURSIVE U(_, _)
        U(st, i) ==
            IF i > Len(keys) THEN st
            ELSE LET ts == keys[i]
                     pv == SetMax({PV(batch[j]) :
                                     j \in {n \in 1..Len(batch) : batch[n].dt = ts}})
                 IN U([st EXCEPT !.pv_series = Append(@, <<ts, pv>>),
                                 !.first_ts = IF @ = NaT THEN ts ELSE @,
                                 !.last_ts = ts], i + 1)
    IN U(sr, 1)

\* ExposureTimeAccumulator.update
ExposureUpdate(e, batch) ==
    [total_obs |-> e.total_obs + Len(batch),
     exposed_obs |-> e.exposed_obs
        + Cardinality({i \in 1..Len(batch) : ToNumeric(batch[i].h_num_shares) > 0})]

\* FinalPortfolioAccumulator.update
FinalPortfolioUpdate(last_batch, batch) ==
    IF batch # <<>> THEN batch ELSE last_batch

\* TradingPeriodAccumulator.update
TradingPeriodUpdate(p, batch) ==
    LET dts == {batch[i].dt : i \in 1..Len(batch)} \ {NaT}
    IN IF batch = <<>> THEN p
       ELSE IF dts = {} THEN p
       ELSE [start |-> IF p.start = NaT \/ SetMin(dts) < p.start
                       THEN SetMin(dts) ELSE p.start,
             end |-> IF p.end = NaT \/ SetMax(dts) > p.end
                     THEN SetMax(dts) ELSE p.end]

\* acc.update(batch) for every accumulator of a state set, in dict order
\* (BacktestReportEngine._process_state); the Sharpe, Sortino, Volatility,
\* MaxDrawdown and Calmar accumulators' update is a no-op
StateAccUpdate(acc, batch) ==
    [pv_by_time |-> PvSeriesUpdate(acc.pv_by_time, batch),
     tr |-> TotalReturnUpdate(acc.tr, batch),
     sr |-> StreamingReturnsUpdate(acc.sr, batch),
     exposure |-> ExposureUpdate(acc.exposure, batch),
     final |-> FinalPortfolioUpdate(acc.final, batch),
     period |-> TradingPeriodUpdate(acc.period, batch)]

\* ------------------------------------------------------------------------
\* result(): a value is [tag, v] with tag
\*   "null"  None                 "empty" {}
\*   "num"   the float v = <<n, d>>
\*   "nan"   float("nan")
\*   "rsqrt" round(sgn * sqrt(n / d), 4) for v = <<sgn, n, d>>
\*   "dict"  a dict whose values are v, in key order
\*   "raise" an exception leaves result()
\* ------------------------------------------------------------------------
Null == [tag |-> "null", v |-> <<>>]

EmptyDict == [tag |-> "empty", v |-> <<>>]

NanValue == [tag |-> "nan", v |-> <<>>]

Raises == [tag |-> "raise", v |-> <<>>]

Num(r) == [tag |-> "num", v |-> r]

RoundedSqrt(sgn, q) == [tag |-> "rsqrt", v |-> <<sgn, q[1], q[2]>>]

Dict(v) == [tag |-> "dict", v |-> v]

ResEq(a, b) == a.tag = b.tag /\ a.v = b.v

\* TotalReturnAccumulator.result
TotalReturnResult(tr) ==
    IF tr.first_ts = NaT \/ tr.last_ts = NaT \/ tr.first_pv = 0 THEN Null
    ELSE Num(RoundTo(RMul(Rat(tr.last_pv - tr.first_pv, tr.first_pv), RInt(100)), 4))

\* sorted(self._pv_series, key=lambda x: x[0]): stable
RECURSIVE InsertByTs(_, _)
InsertByTs(sorted, e) ==
    IF sorted = <<>> THEN <<e>>
    ELSE IF e[1] < sorted[Len(sorted)][1]
         THEN Append(InsertByTs(SubSeq(sorted, 1, Len(sorted) - 1), e),
                     sorted[Len(sorted)])
         ELSE Append(sorted, e)

RECURSIVE SortedSeries(_)
SortedSeries(series) ==
    IF series = <<>> THEN <<>>
    ELSE InsertByTs(SortedSeries(SubSeq(series, 1, Len(series) - 1)),
                    series[Len(series)])

\* StreamingReturnsAccumulator._compute_returns
ComputeReturns(sr) ==
    IF Len(sr.pv_series) < 2 THEN sr
    ELSE LET sorted_series == SortedSeries(sr.pv_series)
             RECURSIVE U(_, _)
             U(st, i) ==
                IF i > Len(sorted_series) THEN st
                ELSE LET prev_pv == sorted_series[i - 1][2]
                         curr_pv == sorted_series[i][2]
                         ret == Rat(curr_pv - prev_pv, prev_pv)
                     IN IF prev_pv > 0
                        THEN U([st EXCEPT
                                  !.all_returns = WelfordUpdate(@, ret),
                                  !.num_returns = @ + 1,
                                  !.downside_returns =
                                      IF RLt(ret, RInt(0)) THEN WelfordUpdate(@, ret)
                                      ELSE @], i + 1)
                        ELSE U(st, i + 1)
         IN U(sr, 2)

\* periods_per_day * 365.25, for total_days # 0
PeriodsPerYear(start, end, num_periods) ==
    RMul(Rat(num_periods, end - start), Rat(1461, 4))

\* infer_annualization_factor, squared: max(1.0, periods_per_year)
InferAnnualizationFactorSq(start, end, num_periods) ==
    IF num_periods < 2 THEN RInt(1)
    ELSE IF end - start = 0 THEN RInt(1)
    ELSE RMax(RInt(1), PeriodsPerYear(start, end, num_periods))

\* StreamingReturnsAccumulator._get_annualization_factor, squared
GetAnnualizationFactorSq(sr) ==
    IF sr.first_ts = NaT \/ sr.last_ts = NaT \/ sr.num_returns < 2 THEN RInt(1)
    ELSE InferAnnualizationFactorSq(sr.first_ts, sr.last_ts, sr.num_returns)

\* StreamingReturnsAccumulator._convert_risk_free_rate
ConvertRiskFreeRate(sr) ==
    IF sr.first_ts = NaT \/ sr.last_ts = NaT \/ sr.num_returns < 2 THEN RInt(0)
    ELSE IF sr.last_ts - sr.first_ts = 0 THEN RInt(0)
    ELSE RDiv(RiskFreeAnnual, PeriodsPerYear(sr.first_ts, sr.last_ts, sr.num_returns))

\* excess / std * ann_factor, rounded: sgn(excess) * sqrt(excess^2 * ann^2 / var)
RatioValue(excess, variance, annSq) ==
    RoundedSqrt(RSign(excess), RDiv(RMul(RMul(excess, excess), annSq), variance))

\* StreamingReturnsAccumulator.sharpe after _compute_returns: [val, sr] is the
\* value returned and the accumulator afterwards
SharpeValue(sr) ==
    LET variance == WelfordVariance(sr.all_returns)
        excess == RSub(sr.all_returns.mean, ConvertRiskFreeRate(sr))
    IN [sr |-> sr,
        val |-> IF sr.all_returns.count = 0 \/ variance = RInt(0) THEN Null
                ELSE RatioValue(excess, variance, GetAnnualizationFactorSq(sr))]

\* StreamingReturnsAccumulator.sharpe
Sharpe(sr0) == SharpeValue(ComputeReturns(sr0))

\* StreamingReturnsAccumulator.sortino after _compute_returns
SortinoValue(sr) ==
    LET variance == WelfordVariance(sr.downside_returns)
        excess == RSub(sr.all_returns.mean, ConvertRiskFreeRate(sr))
    IN [sr |-> sr,
        val |-> IF sr.downside_returns.count = 0 \/ variance = RInt(0) THEN Null
                ELSE RatioValue(excess, variance, GetAnnualizationFactorSq(sr))]

\* StreamingReturnsAccumulator.sortino
Sortino(sr0) == SortinoValue(ComputeReturns(sr0))

\* StreamingReturnsAccumulator.volatility after _compute_returns:
\* std * ann_factor * 100
VolatilityValue(sr) ==
    LET sq == RMul(RMul(WelfordVariance(sr.all_returns),
                        GetAnnualizationFactorSq(sr)), RInt(10000))
    IN [sr |-> sr,
        val |-> IF sr.all_returns.count = 0 THEN Null
                ELSE RoundedSqrt(RSign(sq), sq)]

\* StreamingReturnsAccumulator.volatility
Volatility(sr0) == VolatilityValue(ComputeReturns(sr0))

\* the dict StreamingReturnsAccumulator.result returns, of the outcomes a, b, c
\* of its calls of sharpe(), sortino() and volatility()
StreamingReturnsDict(a, b, c) ==
    [sr |-> c.sr,
     val |-> Dict(<<a.val, b.val, c.val,
                    RoundedSqrt(1, GetAnnualizationFactorSq(c.sr)),
                    c.sr.num_returns>>)]

\* StreamingReturnsAccumulator.result from its call of sortino() on
StreamingReturnsFromSortino(a, b) == StreamingReturnsDict(a, b, Volatility(b.sr))

\* StreamingReturnsAccumulator.result from its call of sharpe() on
StreamingReturnsFromSharpe(a) == StreamingReturnsFromSortino(a, Sortino(a.sr))

\* StreamingReturnsAccumulator.result
StreamingReturnsResult(sr0) == StreamingReturnsFromSharpe(Sharpe(sr0))

\* MaxDrawdownAccumulator.result: (series - series.cummax()) / cummax; a zero
\* peak gives 0/0 = NaN, which Series.min() skips; the min of no number is NaN
MaxDrawdownResult(pv_by_time) ==
    LET series == GetSeries(pv_by_time)
        peak(i) == SetMax({series[j][2] : j \in 1..i})
        defined == {i \in 1..Len(series) : peak(i) # 0}
        dd(i) == Rat(series[i][2] - peak(i), peak(i))
        low == CHOOSE i \in defined : \A j \in defined : ~RLt(dd(j), dd(i))
    IN IF series = <<>> THEN Null
       ELSE IF defined = {} THEN NanValue
       ELSE Num(RoundTo(RMul(dd(low), RInt(100)), 4))

\* CalmarRatioAccumulator.result
CalmarResult(tr, mdd) ==
    IF tr.tag = "null" \/ mdd.tag = "null" THEN Null
    ELSE IF mdd.tag = "nan" THEN NanValue
    ELSE IF mdd.v = RInt(0) THEN Null
    ELSE Num(RoundTo(RDiv(tr.v, <<Abs(mdd.v[1]), mdd.v[2]>>), 4))

\* ExposureTimeAccumulator.result without the check of total_obs: the division
\* by zero raises
ExposureResultUnguarded(e) ==
    IF e.total_obs = 0 THEN Raises
    ELSE Num(RoundTo(RMul(Rat(e.exposed_obs, e.total_obs), RInt(100)), 4))

\* ExposureTimeAccumulator.result
ExposureResult(e) ==
    IF e.total_obs = 0 THEN Null
    ELSE Num(RoundTo(RMul(Rat(e.exposed_obs, e.total_obs), RInt(100)), 4))

\* float(pd.to_numeric(cell) or 0): NaN is truthy and stays NaN
CellFloat(x) == IF x = NaN THEN NaN ELSE IF x = 0 THEN 0 ELSE x

NanMul(x, y) == IF x = NaN \/ y = NaN THEN NaN ELSE x * y

NanAdd(x, y) == IF x = NaN \/ y = NaN THEN NaN ELSE x + y

\* FinalPortfolioAccumulator.result: cash, equity_value, total_value
FinalPortfolioResult(last_batch) ==
    IF last_batch = <<>> THEN Null
    ELSE LET b == SortValuesDt(last_batch)
             last == b[Len(b)]
             cash == CellFloat(last.cap_cash)
             equity == NanMul(CellFloat(last.h_num_shares), CellFloat(last.s_close))
         IN Dict(<<cash, equity, NanAdd(cash, equity)>>)

\* TradingPeriodAccumulator.result: start, end and the duration in hours, days
\* and weeks
TradingPeriodResult(p) ==
    IF p.start = NaT \/ p.end = NaT THEN EmptyDict
    ELSE LET days == RInt(p.end - p.start)
         IN Dict(<<RInt(p.start), RInt(p.end), RoundTo(RMul(days, RInt(24)), 2),
                   RoundTo(days, 2), RoundTo(RDiv(days, RInt(7)), 2)>>)

\* the accumulators of a state set by report key, in dict order
StateAccNames ==
    <<"_portfolio_value_series", "total_return_pct", "_streaming_returns_stats",
      "sharpe_ratio", "sortino_ratio", "annualised_volatility_pct",
      "max_drawdown_pct", "calmar_ratio", "exposure_time_pct", "final_portfolio",
      "trading_period">>

\* is_internal
IsInternal(name) ==
    name \in {"_portfolio_value_series", "_streaming_returns_stats"}

\* PortfolioValueTimeSeriesAccumulator.result: num_observations, start, end
PvSeriesResult(pv_by_time) ==
    LET series == GetSeries(pv_by_time)
    IN IF series = <<>> THEN Dict(<<0>>)
       ELSE Dict(<<Len(series), series[1][1], series[Len(series)][1]>>)

\* the outcome r of a call on the shared StreamingReturnsAccumulator of a set
WithReturns(acc, r) == [val |-> r.val, acc |-> [acc EXCEPT !.sr = r.sr]]

\* result() of the accumulator `name` of a state set: [val, acc] is the value
\* returned and the set afterwards
StateAccResult(name, acc) ==
    CASE name = "_portfolio_value_series" ->
            [val |-> PvSeriesResult(acc.pv_by_time), acc |-> acc]
      [] name = "total_return_pct" ->
            [val |-> TotalReturnResult(acc.tr), acc |-> acc]
      [] name = "_streaming_returns_stats" ->
            WithReturns(acc, StreamingReturnsResult(acc.sr))
      [] name = "sharpe_ratio" ->
            WithReturns(acc, Sharpe(acc.sr))
      [] name = "sortino_ratio" ->
            WithReturns(acc, Sortino(acc.sr))
      [] name = "annualised_volatility_pct" ->
            WithReturns(acc, Volatility(acc.sr))
      [] name = "max_drawdown_pct" ->
            [val |-> MaxDrawdownResult(acc.pv_by_time), acc |-> acc]
      [] name = "calmar_ratio" ->
            [val |-> CalmarResult(TotalReturnResult(acc.tr),
                                  MaxDrawdownResult(acc.pv_by_time)),
             acc |-> acc]
      [] name = "exposure_time_pct" ->
            [val |-> ExposureResult(acc.exposure), acc |-> acc]
      [] name = "final_portfolio" ->
            [val |-> FinalPortfolioResult(acc.final), acc |-> acc]
      [] name = "trading_period" ->
            [val |-> TradingPeriodResult(acc.period), acc |-> acc]

\* the state of one set of trade-stream accumulators (_build_trade_accumulators)
TradeAccInit ==
    [counts |-> [buy |-> 0, sell |-> 0],
     open_buys |-> [tk \in TickerSet |-> <<>>],
     durations |-> <<>>]

\* TradeCountAccumulator.update: value_counts() skips the empty cells
TradeCountUpdate(counts, batch) ==
    [t \in {"buy", "sell"} |->
        counts[t] + Cardinality({i \in 1..Len(batch) : batch[i].a_type = t})]

\* AvgHoldingPeriodAccumulator.update popping the newest unmatched buy
\* (deque.pop() instead of popleft())
AvgHoldingPeriodUpdateLifo(st, batch) ==
    LET b == SortValuesDt(batch)
        RECURSIVE U(_, _)
        U(h, i) ==
            IF i > Len(b) THEN h
            ELSE LET ticker == b[i].ticker
                     ts == b[i].dt
                     open == h.open_buys[ticker]
                 IN IF b[i].a_type = "buy"
                    THEN U([h EXCEPT !.open_buys[ticker] = Append(@, ts)], i + 1)
                    ELSE IF b[i].a_type = "sell" /\ open # <<>>
                    THEN U([h EXCEPT !.open_buys[ticker] =
                                        SubSeq(open, 1, Len(open) - 1),
                                     !.durations = Append(@, ts - open[Len(open)])],
                           i + 1)
                    ELSE U(h, i + 1)
    IN U(st, 1)

\* AvgHoldingPeriodAccumulator.update
AvgHoldingPeriodUpdate(st, batch) ==
    LET b == SortValuesDt(batch)
        RECURSIVE U(_, _)
        U(h, i) ==
            IF i > Len(b) THEN h
            ELSE LET ticker == b[i].ticker
                     ts == b[i].dt
                 IN IF b[i].a_type = "buy"
                    THEN U([h EXCEPT !.open_buys[ticker] = Append(@, ts)], i + 1)
                    ELSE IF b[i].a_type = "sell" /\ h.open_buys[ticker] # <<>>
                    THEN U([h EXCEPT !.open_buys[ticker] = Tail(@),
                                     !.durations =
                                        Append(@, ts - Head(h.open_buys[ticker]))],
                           i + 1)
                    ELSE U(h, i + 1)
    IN U(st, 1)

\* acc.update(batch) for every accumulator of a trade set
TradeAccUpdate(acc0, batch) ==
    LET h == AvgHoldingPeriodUpdate(
                [open_buys |-> acc0.open_buys, durations |-> acc0.durations], batch)
    IN [counts |-> TradeCountUpdate(acc0.counts, batch),
        open_buys |-> h.open_buys,
        durations |-> h.durations]

\* TradeCountAccumulator.result: the dict of counters
TradeCountResult(counts) ==
    IF counts["buy"] = 0 /\ counts["sell"] = 0 THEN EmptyDict
    ELSE Dict(<<counts["buy"], counts["sell"]>>)

RECURSIVE SeqSum(_)
SeqSum(seq) == IF seq = <<>> THEN 0 ELSE Head(seq) + SeqSum(Tail(seq))

\* AvgHoldingPeriodAccumulator.result: the average in hours, days and weeks
AvgHoldingPeriodResult(durations) ==
    IF durations = <<>> THEN Null
    ELSE LET avg == Rat(SeqSum(durations), Len(durations))
         IN Dict(<<RoundTo(RMul(avg, RInt(24)), 2), RoundTo(avg, 2),
                   RoundTo(RDiv(avg, RInt(7)), 2)>>)

TradeAccNames == <<"trade_counts", "avg_holding_period">>

\* result() of the accumulator `name` of a trade set
TradeAccResult(name, acc0) ==
    CASE name = "trade_counts" ->
            [val |-> TradeCountResult(acc0.counts), acc |-> acc0]
      [] name = "avg_holding_period" ->
            [val |-> AvgHoldingPeriodResult(acc0.durations), acc |-> acc0]

\* ------------------------------------------------------------------------
\* One set of accumulators fed page by page
\* ------------------------------------------------------------------------
\* the days the rows of a stream are stamped with
Days == {1, 2, 3}

\* the account and position columns of a state row: no position and no cash,
\* cash only, and an open position
Portfolios ==
    {[ticker |-> Tickers[1], cap_cash |-> 0, h_num_shares |-> NaN, s_close |-> 1],
     [ticker |-> Tickers[1], cap_cash |-> 1, h_num_shares |-> NaN, s_close |-> 1],
     [ticker |-> Tickers[2], cap_cash |-> 1, h_num_shares |-> 1, s_close |-> 1]}

StateRows ==
    {[dt |-> d, ticker |-> p.ticker, cap_cash |-> p.cap_cash,
      h_num_shares |-> p.h_num_shares, s_close |-> p.s_close] :
        d \in Days, p \in Portfolios}

\* a trade row: a buy or a sell of a ticker, or the all-empty row of a tick
\* without a trade
TradeRows ==
    {[dt |-> d, ticker |-> tk, a_type |-> t] :
        d \in Days, tk \in TickerSet, t \in {"buy", "sell"}}
    \cup {[dt |-> NaT, ticker |-> None, a_type |-> None]}

RowsOf(k) == IF k = "STATE" THEN StateRows ELSE TradeRows

AccInitOf(k) == IF k = "STATE" THEN StateAccInit ELSE TradeAccInit

AccUpdateOf(k, a, batch) ==
    IF k = "STATE" THEN StateAccUpdate(a, batch) ELSE TradeAccUpdate(a, batch)

AccNamesOf(k) == IF k = "STATE" THEN StateAccNames ELSE TradeAccNames

AccResultOf(k, name, a) ==
    IF k = "STATE" THEN StateAccResult(name, a) ELSE TradeAccResult(name, a)

Reportable(k) ==
    {AccNamesOf(k)[i] : i \in 1..Len(AccNamesOf(k))} \ {n \in Range(AccNamesOf(k)) : IsInternal(n)}

\* the pages of at most n rows
PagesOf(k, n) == UNION {[1..m -> RowsOf(k)] : m \in 1..n}

\* the Recorder appends the rows of a tick after those of the ticks before it:
\* the timestamps of a stream never decrease
Chronological(rows) ==
    \A i, j \in 1..Len(rows) :
        i < j /\ rows[i].dt # NaT /\ rows[j].dt # NaT => rows[i].dt <= rows[j].dt

\* update(page) on every accumulator of the set
AccUpdate(page) ==
    /\ Chronological(acc_rows \o page)
    /\ acc_set' = AccUpdateOf(acc_kind, acc_set, page)
    /\ acc_rows' = acc_rows \o page
    /\ acc_pages' = acc_pages + 1
    /\ UNCHANGED <<acc_kind, acc_called, recVars, engVars, dsVars, ordVars, drvVars, unitVars>>

\* result() of one accumulator of the set
AccResult(name) ==
    /\ acc_kind = "STATE" => acc_set.sr.num_returns < MaxReturns
    /\ acc_set' = AccResultOf(acc_kind, name, acc_set).acc
    /\ acc_called' = TRUE
    /\ UNCHANGED <<acc_kind, acc_rows, acc_pages, recVars, engVars, dsVars, ordVars, drvVars, unitVars>>

AccIdle ==
    /\ acc_kind = "STATE"
    /\ acc_rows = <<>>
    /\ acc_pages = 0
    /\ acc_set = StateAccInit
    /\ acc_called = FALSE

AccNext ==
    \/ \E page \in PagesOf(acc_kind, MaxRows - Len(acc_rows)) : AccUpdate(page)
    \/ \E i \in 1..Len(AccNamesOf(acc_kind)) : AccResult(AccNamesOf(acc_kind)[i])

\* ------------------------------------------------------------------------
\* The accumulators that select by timestamp, fed pages in any arrival order
\* ------------------------------------------------------------------------
RECURSIVE Flatten(_)
Flatten(pages) ==
    IF pages = <<>> THEN <<>> ELSE Head(pages) \o Flatten(Tail(pages))

\* the rows fed so far, in arrival order
OrdRows == Flatten(ord_pages)

\* update(page) on the TotalReturn and the PortfolioValueSeries accumulator
OrdUpdate(page) ==
    /\ Len(OrdRows) + Len(page) <= MaxRows
    /\ ord_tr' = TotalReturnUpdate(ord_tr, page)
    /\ ord_pv' = PvSeriesUpdate(ord_pv, page)
    /\ ord_pages' = Append(ord_pages, page)
    /\ UNCHANGED <<recVars, accVars, engVars, dsVars, drvVars, unitVars>>

OrdIdle ==
    /\ ord_pages = <<>>
    /\ ord_tr = StateAccInit.tr
    /\ ord_pv = StateAccInit.pv_by_time

OrdNext == \E page \in PagesOf("STATE", MaxRows - Len(OrdRows)) : OrdUpdate(page)

\* ------------------------------------------------------------------------
\* Report Engine (engine.py, loader.py)
\* ------------------------------------------------------------------------
\* ObservationLoader.batch_size (1000 in the source), scaled to the streams of
\* the model
LoaderBatchSize == 1

Min(a, b) == IF a < b THEN a ELSE b

\* ObservationLoader.batches over the data rows of an existing stream file:
\* pages of batch_size rows; a file of a header and no row yields one page of
\* no rows
BatchesOf(rows, batch_size) ==
    IF rows = <<>> THEN << <<>> >>
    ELSE [i \in 1..((Len(rows) + batch_size - 1) \div batch_size) |->
            SubSeq(rows, (i - 1) * batch_size + 1,
                   Min(i * batch_size, Len(rows)))]

Batches(rows) == BatchesOf(rows, LoaderBatchSize)

\* MetricRepository.__init__
\* MetricRepository(tickers, risk_free_rate_annual); fed and fed_by_ticker are
\* the history of the update() calls: the pages handed to the aggregate sets
\* of a kind and to the sets of a ticker
MetricRepository ==
    [state_accs |-> StateAccInit,
     trade_accs |-> TradeAccInit,
     state_accs_by_ticker |-> [t \in TickerSet |-> StateAccInit],
     trade_accs_by_ticker |-> [t \in TickerSet |-> TradeAccInit],
     fed |-> [k \in Kinds |-> <<>>],
     fed_by_ticker |-> [k \in Kinds |-> [t \in TickerSet |-> <<>>]]]

\* the whole batch in place of the ticker's rows
TickerBatchAll(batch, ticker) == batch

\* batch[batch["ticker"] == ticker]
TickerBatch(batch, ticker) == SelectSeq(batch, LAMBDA r : r.ticker = ticker)

\* BacktestReportEngine._process_state over the pages from index i on
RECURSIVE ProcessState(_, _, _)
ProcessState(metrics, pages, i) ==
    IF i > Len(pages) THEN metrics
    ELSE ProcessState(
            [metrics EXCEPT
                !.state_accs = StateAccUpdate(@, pages[i]),
                !.state_accs_by_ticker =
                    [t \in TickerSet |->
                        IF TickerBatch(pages[i], t) = <<>> THEN @[t]
                        ELSE StateAccUpdate(@[t], TickerBatch(pages[i], t))],
                !.fed["STATE"] = Append(@, pages[i]),
                !.fed_by_ticker["STATE"] =
                    [t \in TickerSet |->
                        IF TickerBatch(pages[i], t) = <<>> THEN @[t]
                        ELSE Append(@[t], TickerBatch(pages[i], t))]],
            pages, i + 1)

\* BacktestReportEngine._process_trades over the pages from index i on
RECURSIVE ProcessTrades(_, _, _)
ProcessTrades(metrics, pages, i) ==
    IF i > Len(pages) THEN metrics
    ELSE ProcessTrades(
            [metrics EXCEPT
                !.trade_accs = TradeAccUpdate(@, pages[i]),
                !.trade_accs_by_ticker =
                    [t \in TickerSet |->
                        IF TickerBatch(pages[i], t) = <<>> THEN @[t]
                        ELSE TradeAccUpdate(@[t], TickerBatch(pages[i], t))],
                !.fed["TRADE"] = Append(@, pages[i]),
                !.fed_by_ticker["TRADE"] =
                    [t \in TickerSet |->
                        IF TickerBatch(pages[i], t) = <<>> THEN @[t]
                        ELSE Append(@[t], TickerBatch(pages[i], t))]],
            pages, i + 1)

\* result() of the accumulators of a state set that are not internal, in dict
\* order: [vals, acc] is the values returned and the set afterwards
RECURSIVE StateResults(_, _, _)

\* the loop of StateResults goes on after the outcome r of the first result()
StateResultsAfter(names, r, vals) ==
    StateResults(Tail(names), r.acc, Append(vals, r.val))

StateResults(names, acc, vals) ==
    IF names = <<>> THEN [vals |-> vals, acc |-> acc]
    ELSE IF IsInternal(Head(names)) THEN StateResults(Tail(names), acc, vals)
    ELSE StateResultsAfter(names, StateAccResult(Head(names), acc), vals)

\* result() of the accumulators of a trade set, in dict order
TradeResults(acc0) ==
    [i \in 1..Len(TradeAccNames) |-> TradeAccResult(TradeAccNames[i], acc0).val]

\* the report dict of _assemble_report, of the outcomes cum and by[t] of
\* result() on the cumulative and the per-ticker state sets: [report, metrics]
\* is the report and the repository afterwards; a report is the metric values
\* in key order
ReportOf(metrics, cum, by) ==
    [report |->
        [raised |-> FALSE,
         cumulative |-> cum.vals \o TradeResults(metrics.trade_accs),
         by_ticker |-> [t \in TickerSet |->
            by[t].vals \o TradeResults(metrics.trade_accs_by_ticker[t])]],
     metrics |->
        [metrics EXCEPT !.state_accs = cum.acc,
                        !.state_accs_by_ticker = [t \in TickerSet |-> by[t].acc]]]

\* BacktestReportEngine._assemble_report
AssembleReport(metrics) ==
    ReportOf(metrics,
             StateResults(StateAccNames, metrics.state_accs, <<>>),
             [t \in TickerSet |->
                StateResults(StateAccNames, metrics.state_accs_by_ticker[t], <<>>)])

\* the outcome of a run() an exception left
RaisedReport ==
    [raised |-> TRUE, cumulative |-> <<>>, by_ticker |-> [t \in TickerSet |-> <<>>]]

\* BacktestReportEngine.run, [report, metrics]: pd.read_csv of a missing stream
\* file raises FileNotFoundError when the loop over batches() starts;
\* RunAfterState is run() from _process_trades on
RunAfterState(stream, metrics) ==
    IF ~stream["TRADE"].exists THEN [report |-> RaisedReport, metrics |-> metrics]
    ELSE AssembleReport(ProcessTrades(metrics, Batches(stream["TRADE"].rows), 1))

RunOutcome(stream, metrics) ==
    IF ~stream["STATE"].exists THEN [report |-> RaisedReport, metrics |-> metrics]
    ELSE RunAfterState(stream,
                       ProcessState(metrics, Batches(stream["STATE"].rows), 1))

\* BacktestReportEngine(context): a fresh instance over the same streams
EngConstruct ==
    /\ eng_metrics' = MetricRepository
    /\ UNCHANGED <<eng_stream, eng_reports, recVars, accVars, dsVars, ordVars, drvVars, unitVars>>

\* engine.run()
EngRun ==
    /\ Len(eng_reports) < MaxRuns
    /\ \E out \in {RunOutcome(eng_stream, eng_metrics)} :
        /\ eng_metrics' = out.metrics
        /\ eng_reports' = Append(eng_reports, out.report)
    /\ UNCHANGED <<eng_stream, recVars, accVars, dsVars, ordVars, drvVars, unitVars>>

\* a stream file of kind k with at most n data rows: missing, or a header and
\* the rows of a run
StreamsOf(k, n) ==
    {[exists |-> FALSE, rows |-> <<>>], [exists |-> TRUE, rows |-> <<>>]}
    \cup {[exists |-> TRUE, rows |-> r] : r \in {p \in PagesOf(k, n) : Chronological(p)}}

EngIdle ==
    /\ eng_stream = [k \in Kinds |-> [exists |-> FALSE, rows |-> <<>>]]
    /\ eng_metrics = MetricRepository
    /\ eng_reports = <<>>

\* the engine is constructed over streams a finished run left, whose metadata
\* files ObservationLoader.__init__ reads
EngInit ==
    /\ RecInit /\ AccIdle
    /\ \E s \in StreamsOf("STATE", MaxStreamRows) :
        \E t \in StreamsOf("TRADE", MaxStreamRows - Len(s.rows)) :
            eng_stream = [k \in Kinds |-> IF k = "STATE" THEN s ELSE t]
    /\ eng_metrics = MetricRepository
    /\ eng_reports = <<>>

EngNext ==
    \/ EngConstruct
    \/ EngRun

\* ------------------------------------------------------------------------
\* Downsampler (downsampler.py).  Integers stand for the floats of the source
\* wherever the float expression is exact over the values of the model.
\* ------------------------------------------------------------------------
Max(a, b) == IF a > b THEN a ELSE b

\* sum(v[i] for i in range(lo, hi)), the list v indexed from 0
RECURSIVE SumRange(_, _, _)
SumRange(v, lo, hi) ==
    IF lo >= hi THEN 0 ELSE v[lo + 1] + SumRange(v, lo + 1, hi)

\* int(1 + b * bucket_size) for bucket_size = (n - 2) / (target - 2)
BucketEdge(b, n, target) == (target - 2 + b * (n - 2)) \div (target - 2)

\* _lttb_indices with `area >= best_area`: the last point of a bucket that
\* reaches the largest area is taken
LttbIndicesLastMax(x, y, target) ==
    LET n == Len(x)
        X(i) == x[i + 1]
        Y(i) == y[i + 1]
        RECURSIVE Pick(_, _)
        Pick(selected, b) ==
            IF b >= target - 2 THEN Append(selected, n - 1)
            ELSE LET lo == BucketEdge(b, n, target)
                     hi == Min(BucketEdge(b + 1, n, target), n - 1)
                     next_lo == BucketEdge(b + 1, n, target)
                     clipped == Min(BucketEdge(b + 2, n, target), n)
                     next_hi == IF next_lo >= clipped THEN n ELSE clipped
                     cnt == Max(1, next_hi - next_lo)
                     sum_x == SumRange(x, next_lo, next_hi)
                     sum_y == SumRange(y, next_lo, next_hi)
                     prev_i == selected[Len(selected)]
                     px == X(prev_i)
                     py == Y(prev_i)
                     area(i) == Abs((X(i) - px) * (sum_y - cnt * py)
                                    - (sum_x - cnt * px) * (Y(i) - py))
                     best_i == CHOOSE i \in lo..(hi - 1) :
                                /\ \A j \in lo..(hi - 1) : area(j) <= area(i)
                                /\ \A j \in (i + 1)..(hi - 1) : area(j) < area(i)
                 IN IF lo >= hi THEN Pick(Append(selected, hi), b + 1)
                    ELSE Pick(Append(selected, best_i), b + 1)
    IN IF n <= target \/ target <= 2 THEN [i \in 1..n |-> i - 1]
       ELSE Pick(<<0>>, 0)

\* _lttb_indices(x, y, target): the indices selected, 0-based; the areas are
\* compared scaled by the size of the next bucket
LttbIndices(x, y, target) ==
    LET n == Len(x)
        X(i) == x[i + 1]
        Y(i) == y[i + 1]
        RECURSIVE Pick(_, _)
        Pick(selected, b) ==
            IF b >= target - 2 THEN Append(selected, n - 1)
            ELSE LET lo == BucketEdge(b, n, target)
                     hi == Min(BucketEdge(b + 1, n, target), n - 1)
                     next_lo == BucketEdge(b + 1, n, target)
                     clipped == Min(BucketEdge(b + 2, n, target), n)
                     next_hi == IF next_lo >= clipped THEN n ELSE clipped
                     cnt == Max(1, next_hi - next_lo)
                     sum_x == SumRange(x, next_lo, next_hi)
                     sum_y == SumRange(y, next_lo, next_hi)
                     prev_i == selected[Len(selected)]
                     px == X(prev_i)
                     py == Y(prev_i)
                     area(i) == Abs((X(i) - px) * (sum_y - cnt * py)
                                    - (sum_x - cnt * px) * (Y(i) - py))
                     best_i == CHOOSE i \in lo..(hi - 1) :
                                /\ \A j \in lo..(hi - 1) : area(j) <= area(i)
                                /\ \A j \in lo..(i - 1) : area(j) < area(i)
                 IN IF lo >= hi THEN Pick(Append(selected, hi), b + 1)
                    ELSE Pick(Append(selected, best_i), b + 1)
    IN IF n <= target \/ target <= 2 THEN [i \in 1..n |-> i - 1]
       ELSE Pick(<<0>>, 0)

\* Downsampler._state_meta_num_records
StateMetaNumRecords(meta) == IF ~meta.exists THEN 0 ELSE meta.num_records

\* total_n of run(): the metadata's row count, or the rows counted by a scan
\* when it is not positive
TotalN(rows, meta) ==
    IF StateMetaNumRecords(meta) <= 0 THEN Len(rows) ELSE StateMetaNumRecords(meta)

\* the chunks pd.read_csv(chunksize=chunk_size) yields
NumChunks(rows, chunk_size) == (Len(rows) + chunk_size - 1) \div chunk_size

\* must_keep without the rows at a trade timestamp
MustKeepEnds(rows, trade_dts, first, last, is_first, is_last) ==
    {i \in first..last : (is_first /\ i = first) \/ (is_last /\ i = last)}

\* must_keep of run(): the first row of the first chunk, the last row of the
\* last chunk and every row of the chunk first..last whose dt is in trade_dts
MustKeep(rows, trade_dts, first, last, is_first, is_last) ==
    {i \in first..last :
        \/ is_first /\ i = first
        \/ is_last /\ i = last
        \/ rows[i].dt \in trade_dts}

\* the positions of the rows run() keeps of the chunk chunk_idx (0-based), as
\* positions in the whole stream
SelectedOfChunk(rows, trade_dts, meta, target_size, chunk_size, chunk_idx) ==
    LET total_n == TotalN(rows, meta)
        total_chunks == Max(1, (total_n + chunk_size - 1) \div chunk_size)
        lttb_budget_total == Max(0, target_size - 2 - Cardinality(trade_dts))
        first == chunk_idx * chunk_size + 1
        last == Min((chunk_idx + 1) * chunk_size, Len(rows))
        n_chunk == last - first + 1
        is_first == chunk_idx = 0
        is_last == chunk_idx = total_chunks - 1
        must_keep == MustKeep(rows, trade_dts, first, last, is_first, is_last)
        other == Ascending((first..last) \ must_keep)
        n_other == Len(other)
        lttb_budget == Min(Max(0, (n_chunk * lttb_budget_total) \div total_n), n_other)
        x == [j \in 1..n_other |-> j - 1]
        y == [j \in 1..n_other |-> rows[other[j]].value]
        lttb_sel == IF lttb_budget <= 2
                    THEN IF n_other > 1 THEN <<0, n_other - 1>>
                         ELSE [j \in 1..n_other |-> j - 1]
                    ELSE LttbIndices(x, y, lttb_budget)
    IN IF n_other = 0 \/ lttb_budget = 0 THEN must_keep
       ELSE must_keep \cup {other[lttb_sel[j] + 1] : j \in 1..Len(lttb_sel)}

\* the rows run() writes: the kept rows of every chunk, in stream order
PlotData(rows, trade_dts, meta, target_size, chunk_size) ==
    LET kept == UNION {SelectedOfChunk(rows, trade_dts, meta, target_size,
                                       chunk_size, c) :
                        c \in 0..(NumChunks(rows, chunk_size) - 1)}
        idx == Ascending(kept)
    IN [j \in 1..Len(idx) |-> rows[idx[j]]]

\* Downsampler(context, target_size, chunk_size).run() over an existing state
\* stream
DsRun(target_size, chunk_size) ==
    /\ ~ds_ran
    /\ ds_target_size' = Max(2, target_size)
    /\ ds_chunk_size' = Max(1, chunk_size)
    /\ ds_out' = PlotData(ds_rows, ds_trade_dts, ds_meta, Max(2, target_size),
                          Max(1, chunk_size))
    /\ ds_ran' = TRUE
    /\ UNCHANGED <<ds_rows, ds_trade_dts, ds_meta, recVars, accVars, engVars, ordVars, drvVars, unitVars>>

\* the portfolio values of the rows of a state stream
DsValues == {0, 1}

\* the ticks of a run at which a trade can be recorded
TradeTicks == {2, 3}

\* the metadata of a state stream of n rows: no file, or a file whose
\* num_records is the row count, one more or one less
MetaOf(n) ==
    {[exists |-> FALSE, num_records |-> 0]}
    \cup {[exists |-> TRUE, num_records |-> m] : m \in (n - 1)..(n + 1)}

DsIdle ==
    /\ ds_rows = <<>>
    /\ ds_trade_dts = {}
    /\ ds_meta = [exists |-> FALSE, num_records |-> 0]
    /\ ds_target_size = 0
    /\ ds_chunk_size = 0
    /\ ds_out = <<>>
    /\ ds_ran = FALSE

\* a run of one ticker leaves one state row per tick, stamped with the tick
DsInit ==
    /\ RecInit /\ AccIdle /\ EngIdle
    /\ \E n \in 1..MaxDsRows :
        /\ \E y \in [1..n -> DsValues] :
            ds_rows = [i \in 1..n |-> [dt |-> i, value |-> y[i]]]
        /\ ds_trade_dts \in SUBSET (TradeTicks \cap 1..n)
        /\ ds_meta \in MetaOf(n)
    /\ ds_target_size = 0
    /\ ds_chunk_size = 0
    /\ ds_out = <<>>
    /\ ds_ran = FALSE

DsNext ==
    \E target_size \in 1..MaxTarget, chunk_size \in 1..MaxDsRows :
        DsRun(target_size, chunk_size)

\* ------------------------------------------------------------------------
\* Driver (BacktestManager.py) and the Loaders of its Report Engine (loader.py)
\* ------------------------------------------------------------------------
\* ObservationLoader.batch_size (1000 in the source), scaled to the streams a
\* run of the Recorder persists here
DriverBatchSize == 3

Unread == [tag |-> "unread", v |-> <<>>]

\* ObservationTypeMetadata.from_json(path).num_records: Path.read_text raises
\* FileNotFoundError for a missing file
LoaderMeta(meta) ==
    IF ~meta.exists THEN Raises ELSE [tag |-> "num", v |-> meta.num_records]

\* the cells of the rows of a file
RowCells(lines) == [i \in 1..Len(lines) |-> lines[i].cells]

\* ObservationLoader.batches over a persisted stream: pd.read_csv raises for a
\* missing file (FileNotFoundError) and for an empty one (EmptyDataError); it
\* takes the first line as the column names whatever that line is, and
\* chunk["dt"] raises KeyError when no column is named dt; the lines after the
\* first are the data rows
LoaderBatches(file, batch_size) ==
    IF ~file.exists \/ file.lines = <<>> THEN Raises
    ELSE IF ~file.lines[1].hdr THEN Raises
    ELSE [tag |-> "pages",
          v |-> BatchesOf(RowCells(Tail(file.lines)), batch_size)]

\* BacktestManager.__init__: the context, the Observer (whose state RecInit
\* gives), then BacktestReportEngine.__init__, which constructs the STATE
\* Loader and then the TRADE Loader; each reads its metadata file
DrvConstruct ==
    /\ drv_pc = "init"
    /\ LET mS == LoaderMeta(meta_file["STATE"])
           mT == IF mS.tag = "raise" THEN Unread ELSE LoaderMeta(meta_file["TRADE"])
           rS == {[kind |-> "STATE", file |-> "meta", rec_pc |-> rec_pc,
                   found |-> meta_file["STATE"].exists]}
           rT == IF mS.tag = "raise" THEN {}
                 ELSE {[kind |-> "TRADE", file |-> "meta", rec_pc |-> rec_pc,
                        found |-> meta_file["TRADE"].exists]}
       IN /\ ldr_meta' = [STATE |-> mS, TRADE |-> mT]
          /\ ldr_reads' = ldr_reads \cup rS \cup rT
          /\ drv_pc' = IF mS.tag = "raise" \/ mT.tag = "raise"
                       THEN "raised" ELSE "constructed"
    /\ UNCHANGED <<ldr_out, recVars, accVars, engVars, dsVars, ordVars, unitVars>>

\* BacktestManager.backtest: the observe, pack and shutdown calls of a run
DrvBacktest ==
    /\ drv_pc = "constructed"
    /\ RecNext
    /\ UNCHANGED <<drvVars, accVars, engVars, dsVars, ordVars, unitVars>>

\* BacktestManager.generate_report, as far as the Loaders go:
\* BacktestReportEngine.run() iterates the STATE Loader's batches() and then
\* the TRADE Loader's (what the accumulators and the Downsampler make of the
\* pages is the subject of the specifications of those components)
DrvGenerateReport ==
    /\ drv_pc = "constructed"
    /\ rec_pc = "done"
    /\ LET oS == LoaderBatches(stream_file["STATE"], DriverBatchSize)
           oT == IF oS.tag = "raise" THEN Unread
                 ELSE LoaderBatches(stream_file["TRADE"], DriverBatchSize)
           rS == {[kind |-> "STATE", file |-> "stream", rec_pc |-> rec_pc,
                   found |-> stream_file["STATE"].exists]}
           rT == IF oS.tag = "raise" THEN {}
                 ELSE {[kind |-> "TRADE", file |-> "stream", rec_pc |-> rec_pc,
                        found |-> stream_file["TRADE"].exists]}
       IN /\ ldr_out' = [STATE |-> oS, TRADE |-> oT]
          /\ ldr_reads' = ldr_reads \cup rS \cup rT
          /\ drv_pc' = IF oS.tag = "raise" \/ oT.tag = "raise"
                       THEN "raised" ELSE "reported"
    /\ UNCHANGED <<ldr_meta, recVars, accVars, engVars, dsVars, ordVars, unitVars>>

\* the observables of one tick of an earlier run
EarlierPool(k) ==
    LET of(pfx) == CHOOSE o \in ObsInputs(1) : o.pfx = pfx
    IN IF k = "STATE" THEN PoolAppend(PoolAppend(<<>>, of("cap")), of("s"))
       ELSE PoolAppend(<<>>, of("a"))

\* The report directory the run starts in.  Its path is made of the test and
\* the strategy name only (ObservationContext.__init__) and nothing removes
\* its files, so it is either fresh or holds what an earlier Observer of the
\* same test and strategy left at its shutdown: after no tick, the metadata
\* files only; after one tick, also the streams with their rows.
ReportDirs ==
    {[stream |-> [k \in Kinds |-> [exists |-> FALSE, lines |-> <<>>]],
      meta   |-> [k \in Kinds |-> [exists |-> FALSE, num_records |-> 0]]],
     [stream |-> [k \in Kinds |-> [exists |-> FALSE, lines |-> <<>>]],
      meta   |-> [k \in Kinds |-> [exists |-> TRUE, num_records |-> 0]]],
     [stream |-> [k \in Kinds |->
                    [exists |-> TRUE,
                     lines |-> <<HeaderLine(k)>>
                               \o RowLines(MergePool(k, EarlierPool(k)))]],
      meta   |-> [k \in Kinds |->
                    [exists |-> TRUE, num_records |-> Len(Tickers)]]]}

DrvIdle ==
    /\ drv_pc = "init"
    /\ ldr_meta = [k \in Kinds |-> Unread]
    /\ ldr_out = [k \in Kinds |-> Unread]
    /\ ldr_reads = {}

DrvInit ==
    /\ obs_pool = [k \in Kinds |-> <<>>]
    /\ obs_slices = [k \in Kinds |-> <<>>]
    /\ num_records = [k \in Kinds |-> 0]
    /\ \E dir \in ReportDirs :
         /\ stream_file = dir.stream
         /\ meta_file = dir.meta
    /\ tick = 0
    /\ io_failures = 0
    /\ rec_pc = "running"
    /\ packed = [k \in Kinds |-> <<>>]
    /\ DrvIdle

DrvNext ==
    \/ DrvConstruct
    \/ DrvBacktest
    \/ DrvGenerateReport

\* ------------------------------------------------------------------------
\* Components checked on their own
\* ------------------------------------------------------------------------
\* WelfordAccumulator(): a fresh accumulator
WelIdle ==
    /\ wel_values = <<>>
    /\ wel = WelfordInit

\* WelfordAccumulator.update(value)
WelUpdate(value) ==
    /\ Len(wel_values) < MaxFed
    /\ wel_values' = Append(wel_values, value)
    /\ wel' = WelfordUpdate(wel, RInt(value))
    /\ UNCHANGED <<recVars, accVars, engVars, dsVars, ordVars, drvVars, lttbVars,
                   pkVars, pmVars>>

WelNext == \E value \in 1..MaxValue : WelUpdate(value)

\* no call of _lttb_indices was made
LttbIdle ==
    /\ lttb_x = <<>>
    /\ lttb_y = <<>>
    /\ lttb_target = 0
    /\ lttb_out = <<-1>>

\* the y values of the points handed to _lttb_indices
LttbValues == {0, 1, 2}

\* a call _lttb_indices(x, y, target) about to be made: x is list(range(n)) as
\* in Downsampler.run, y any values
LttbArgs ==
    /\ \E n \in 1..MaxPoints :
          /\ lttb_x = [i \in 1..n |-> i - 1]
          /\ lttb_y \in [1..n -> LttbValues]
    /\ lttb_target \in 0..MaxLttbTarget
    /\ lttb_out = <<-1>>

\* _lttb_indices(x, y, target) returns
LttbCall ==
    /\ lttb_out = <<-1>>
    /\ lttb_out' = LttbIndices(lttb_x, lttb_y, lttb_target)
    /\ UNCHANGED <<lttb_x, lttb_y, lttb_target, recVars, accVars, engVars, dsVars,
                   ordVars, drvVars, welVars, pkVars, pmVars>>

LttbNext == LttbCall

\* an Observer whose pool is empty
PkIdle ==
    /\ pk_pool = <<>>
    /\ pk_seen = <<>>
    /\ pk_rows = <<>>

\* The state records an Observer can be handed in one tick: stock slices and
\* holding slices of the first ticker and capital slices, each with two values
\* of its quantity, and a holding slice whose ticker is the empty string
PkInputs ==
    {[type |-> "STATE", pfx |-> "s", ticker |-> Tickers[1],
      json |-> <<<<"dt", "1">>, <<"ticker", Tickers[1]>>, <<"close", c>>,
                 <<"volume", "1">>>>] : c \in {"1", "2"}}
    \cup {[type |-> "STATE", pfx |-> "h", ticker |-> Tickers[1],
           json |-> <<<<"ticker", Tickers[1]>>, <<"type", "buy">>,
                      <<"num_shares", n>>>>] : n \in {"1", "2"}}
    \cup {[type |-> "STATE", pfx |-> "h", ticker |-> "",
           json |-> <<<<"ticker", "">>, <<"type", "buy">>, <<"num_shares", "1">>>>]}
    \cup {[type |-> "STATE", pfx |-> "cap", ticker |-> None,
           json |-> <<<<"cash", c>>, <<"debt", "0">>>>] : c \in {"1", "2"}}

\* Observer.observe of a state record
PkObserve(o) ==
    /\ pk_rows = <<>>
    /\ Len(pk_seen) < MaxSeen
    /\ pk_pool' = PoolAppend(pk_pool, o)
    /\ pk_seen' = Append(pk_seen, o)
    /\ UNCHANGED <<pk_rows, recVars, accVars, engVars, dsVars, ordVars, drvVars,
                   welVars, lttbVars, pmVars>>

\* Observer.pack_observation_pool, the state kind
PkPack ==
    /\ pk_rows = <<>>
    /\ pk_rows' = MergePool("STATE", pk_pool)
    /\ pk_pool' = <<>>
    /\ UNCHANGED <<pk_seen, recVars, accVars, engVars, dsVars, ordVars, drvVars,
                   welVars, lttbVars, pmVars>>

PkNext ==
    \/ \E o \in PkInputs : PkObserve(o)
    \/ PkPack

\* ------------------------------------------------------------------------
\* PortfolioManager (PortfolioManager.py, CapitalStateManager.py,
\* HoldingsManager.py, HoldingStateManager.py).  Share counts, prices and cash
\* are whole numbers.  A call returns True or False or raises; out is "True",
\* "False" or "raise".
\* ------------------------------------------------------------------------
\* the prices an action is executed at
Asks == {1, 2}

\* TradeAction: type, ticker, num_shares > 0
TradeActions ==
    [type : {"buy", "sell"}, ticker : TickerSet, num_shares : 1..MaxShares]

\* CapitalState.rem_cash
RemCash(cash, val) ==
    IF val > cash THEN [ok |-> FALSE, cash |-> cash]
    ELSE [ok |-> TRUE, cash |-> cash - val]

\* CapitalState.add_cash
AddCash(cash, val) == [ok |-> TRUE, cash |-> cash + val]

\* CapitalState.update_capital
UpdateCapital(cash, action, ask) ==
    IF action.type = "buy" THEN RemCash(cash, ask * action.num_shares)
    ELSE AddCash(cash, ask * action.num_shares)

\* HoldingState.subtract_shares
SubtractShares(holding, num_shares) ==
    IF num_shares > holding.num_shares THEN [ok |-> FALSE, holding |-> holding]
    ELSE [ok |-> TRUE,
          holding |-> [holding EXCEPT !.num_shares = @ - num_shares]]

\* HoldingsManager.__update_holding_buy
UpdateHoldingBuy(holdings, ticker, num_shares, ask) ==
    [out |-> "True",
     holdings |->
        IF ticker \in DOMAIN holdings
        THEN [holdings EXCEPT ![ticker].num_shares = @ + num_shares]
        ELSE [t \in DOMAIN holdings \cup {ticker} |->
                IF t = ticker THEN [pps |-> ask, num_shares |-> num_shares]
                ELSE holdings[t]]]

\* HoldingsManager.__update_holding_sell, after subtract_shares returned r:
\* the holding object was changed in place; self.__rem_holding is looked up as
\* _HoldingsManager__rem_holding, which the class does not define (its method
\* is rem_holding), so the call raises AttributeError
SellAfterSubtract(holdings, ticker, r) ==
    IF ~r.ok THEN [out |-> "False", holdings |-> holdings]
    ELSE IF r.holding.num_shares <= 0
         THEN [out |-> "raise", holdings |-> [holdings EXCEPT ![ticker] = r.holding]]
         ELSE [out |-> "True", holdings |-> [holdings EXCEPT ![ticker] = r.holding]]

\* HoldingsManager.__update_holding_sell: self.holdings[ticker] raises KeyError
\* for a ticker that is not held
UpdateHoldingSell(holdings, ticker, num_shares) ==
    IF ticker \notin DOMAIN holdings THEN [out |-> "raise", holdings |-> holdings]
    ELSE SellAfterSubtract(holdings, ticker,
                           SubtractShares(holdings[ticker], num_shares))

\* HoldingsManager.update_holding
UpdateHolding(holdings, action, ask) ==
    IF action.type = "buy"
    THEN UpdateHoldingBuy(holdings, action.ticker, action.num_shares, ask)
    ELSE UpdateHoldingSell(holdings, action.ticker, action.num_shares)

\* PortfolioManager.exec_action after update_capital returned c and, when it
\* returned True, update_holding ended as h
ExecActionOutcome(holdings, c, h) ==
    IF ~c.ok THEN [out |-> "False", cash |-> c.cash, holdings |-> holdings]
    ELSE [out |-> h.out, cash |-> c.cash, holdings |-> h.holdings]

\* PortfolioManager.exec_action: [out, cash, holdings]
ExecAction(cash, holdings, action, ask) ==
    ExecActionOutcome(holdings, UpdateCapital(cash, action, ask),
                      UpdateHolding(holdings, action, ask))

\* no call was made yet
NoCall ==
    [n |-> 0, action |-> None, ask |-> 0, out |-> None, cash |-> 0,
     holdings |-> <<>>]

\* portfolio.exec_action(action, ask) in the driver's loop; an exception it
\* raises ends the run
PmExecAction(action, ask) ==
    /\ pm_last.n < MaxCalls
    /\ pm_last.out # "raise"
    /\ \E r \in {ExecAction(pm_cash, pm_holdings, action, ask)} :
          /\ pm_cash' = r.cash
          /\ pm_holdings' = r.holdings
          /\ pm_last' = [n |-> pm_last.n + 1, action |-> action, ask |-> ask,
                         out |-> r.out, cash |-> pm_cash, holdings |-> pm_holdings]
    /\ UNCHANGED <<recVars, accVars, engVars, dsVars, ordVars, drvVars, welVars,
                   lttbVars, pkVars>>

PmNext == \E action \in TradeActions, ask \in Asks : PmExecAction(action, ask)

\* PortfolioManager(init_cap)
PmNew ==
    /\ pm_cash \in 1..MaxCap
    /\ pm_holdings = <<>>
    /\ pm_last = NoCall

\* no PortfolioManager
PmIdle ==
    /\ pm_cash = 0
    /\ pm_holdings = <<>>
    /\ pm_last = NoCall

UnitIdle == WelIdle /\ LttbIdle /\ PkIdle /\ PmIdle

\* ------------------------------------------------------------------------
\* Specifications: one per component, the other components idle
\* ------------------------------------------------------------------------
\* the Recorder over a run
\* every component in its initial state; no stream fed, no engine run
Idle == RecInit /\ AccIdle /\ EngIdle /\ DsIdle /\ OrdIdle /\ DrvIdle

Init == Idle /\ UnitIdle

Next == RecNext /\ UNCHANGED <<accVars, engVars, dsVars, ordVars, drvVars, unitVars>>

Spec == Init /\ [][Next]_vars

\* one set of accumulators
AccInit ==
    /\ RecInit /\ EngIdle /\ DsIdle /\ OrdIdle /\ DrvIdle /\ UnitIdle
    /\ acc_kind \in Kinds
    /\ acc_rows = <<>>
    /\ acc_pages = 0
    /\ acc_set = AccInitOf(acc_kind)
    /\ acc_called = FALSE

SpecAcc == AccInit /\ [][AccNext]_vars

\* the Report Engine over persisted streams
EngSpecInit == EngInit /\ DsIdle /\ OrdIdle /\ DrvIdle /\ UnitIdle

SpecEng == EngSpecInit /\ [][EngNext]_vars

\* the Downsampler over persisted streams
DsSpecInit == DsInit /\ OrdIdle /\ DrvIdle /\ UnitIdle

SpecDs == DsSpecInit /\ [][DsNext]_vars

\* the accumulators that select by timestamp, pages in any order
OrdInit == Idle /\ UnitIdle

SpecOrd == OrdInit /\ [][OrdNext]_vars

\* the driver sequence: construct, backtest, generate_report
DrvSpecInit == DrvInit /\ AccIdle /\ EngIdle /\ DsIdle /\ OrdIdle /\ UnitIdle

SpecDrv == DrvSpecInit /\ [][DrvNext]_vars

\* one tick of an Observer handed any state records
PkInit == Idle /\ UnitIdle

SpecPk == PkInit /\ [][PkNext]_vars

\* one call of _lttb_indices
LttbInit == Idle /\ WelIdle /\ PkIdle /\ PmIdle /\ LttbArgs

SpecLttb == LttbInit /\ [][LttbNext]_vars

\* a PortfolioManager handed any actions
PmInit == Idle /\ WelIdle /\ LttbIdle /\ PkIdle /\ PmNew

SpecPm == PmInit /\ [][PmNext]_vars

\* one WelfordAccumulator fed any values
WelInit == Idle /\ UnitIdle

SpecWel == WelInit /\ [][WelNext]_vars

\* the data rows of a persisted stream
DataRows(file) == SelectSeq(file.lines, LAMBDA l : ~l.hdr)

\* C1: in every reachable state of the Recorder the cumulative row count of a
\* stream's metadata equals the number of rows actually appended to the stream.
C1_NumRecordsEqualsAppended ==
    \A k \in Kinds : num_records[k] = Len(DataRows(stream_file[k]))

\* the accumulators of the set under test, by report key
AccNames == Range(AccNamesOf(acc_kind))

\* the value result() of `name` returns in the current state
ResultNow(name) == AccResultOf(acc_kind, name, acc_set).val

\* the value a second result() of `name` returns right after a first one
ResultAgain(name) ==
    AccResultOf(acc_kind, name, AccResultOf(acc_kind, name, acc_set).acc).val

\* C2: for every accumulator, after any sequence of update() calls, result()
\* called twice with no update() in between returns the same value both times.
C2_ResultIdempotent ==
    \A name \in AccNames : ResEq(ResultNow(name), ResultAgain(name))

\* result() of `name` on a fresh set fed all the rows so far as one page
ResultOnePage(name) ==
    AccResultOf(acc_kind, name,
                AccUpdateOf(acc_kind, AccInitOf(acc_kind), acc_rows)).val

\* C3: for any accumulator, the rows fed split at any page boundaries and the
\* same rows fed in the same order as one page yield an identical result().
C3_PageSplitInvariant ==
    ~acc_called /\ acc_rows # <<>> =>
        \A name \in AccNames : ResEq(ResultNow(name), ResultOnePage(name))

\* C6: result() of every reportable accumulator called before any update()
\* returns None or {} and does not raise.
C6_ResultBeforeUpdateIsNull ==
    acc_rows = <<>> =>
        \A name \in Reportable(acc_kind) : ResultNow(name).tag \in {"null", "empty"}

\* result() has been called on a set of state accumulators no page was fed to
C6_Witness == acc_kind = "STATE" /\ acc_rows = <<>> /\ acc_called

\* C7: a metric whose formula divides by a zero quantity is null: Sharpe for a
\* zero stdev of the returns, Sortino for a zero downside stdev, Calmar for a
\* max drawdown of exactly zero, TotalReturn for a zero first portfolio value,
\* MaxDrawdown for a running peak that is zero.
C7_DivideByZeroIsNull ==
    acc_kind = "STATE" =>
        LET sr == ComputeReturns(acc_set.sr)
            series == GetSeries(acc_set.pv_by_time)
            mdd == MaxDrawdownResult(acc_set.pv_by_time)
        IN /\ sr.all_returns.count > 0 /\ WelfordVariance(sr.all_returns) = RInt(0)
                => ResultNow("sharpe_ratio").tag = "null"
           /\ sr.downside_returns.count > 0
                /\ WelfordVariance(sr.downside_returns) = RInt(0)
                => ResultNow("sortino_ratio").tag = "null"
           /\ mdd.tag = "num" /\ mdd.v = RInt(0)
                => ResultNow("calmar_ratio").tag = "null"
           /\ acc_set.tr.first_ts # NaT /\ acc_set.tr.first_pv = 0
                => ResultNow("total_return_pct").tag = "null"
           /\ series # <<>> /\ (\A i \in 1..Len(series) : series[i][2] = 0)
                => ResultNow("max_drawdown_pct").tag = "null"

\* two outcomes of run() are the same: both raised, or both returned reports of
\* identical metric values
ReportEq(a, b) ==
    /\ a.raised = b.raised
    /\ Len(a.cumulative) = Len(b.cumulative)
    /\ \A i \in 1..Len(a.cumulative) : ResEq(a.cumulative[i], b.cumulative[i])
    /\ \A t \in TickerSet :
        /\ Len(a.by_ticker[t]) = Len(b.by_ticker[t])
        /\ \A i \in 1..Len(a.by_ticker[t]) :
            ResEq(a.by_ticker[t][i], b.by_ticker[t][i])

\* C4: the invocations of run() over the same unmodified streams, on the same
\* engine instance or on a freshly constructed one, produce reports with
\* identical metric values.
C4_RunsIdentical ==
    \A i, j \in 1..Len(eng_reports) : ReportEq(eng_reports[i], eng_reports[j])

\* a stream file is missing or holds no data row
NoDataRows(stream) == ~stream.exists \/ stream.rows = <<>>

\* every metric of a report is None or {}
AllNull(report) ==
    /\ \A i \in 1..Len(report.cumulative) :
        report.cumulative[i].tag \in {"null", "empty"}
    /\ \A t \in TickerSet : \A i \in 1..Len(report.by_ticker[t]) :
        report.by_ticker[t][i].tag \in {"null", "empty"}

\* C5: when the persisted streams are missing or contain no data rows, run()
\* completes without raising and every metric in the report is null or empty.
C5_EmptyStreamAllNull ==
    (\A k \in Kinds : NoDataRows(eng_stream[k])) =>
        \A i \in 1..Len(eng_reports) :
            ~eng_reports[i].raised /\ AllNull(eng_reports[i])

\* C8: the number of rows run() writes to the output is at most target_size.
C8_OutputAtMostTarget == ds_ran => Len(ds_out) <= ds_target_size

\* C9: the output of run() over a non-empty state stream contains the first and
\* the last row of the stream, whatever the chunk size and the row count the
\* metadata records.
C9_FirstAndLastKept ==
    ds_ran => ds_rows[1] \in Range(ds_out) /\ ds_rows[Len(ds_rows)] \in Range(ds_out)

\* C10: every state row whose timestamp is the timestamp of a row of the trade
\* stream is in the output of run().
C10_TradeRowsKept ==
    ds_ran =>
        \A i \in 1..Len(ds_rows) :
            ds_rows[i].dt \in ds_trade_dts => ds_rows[i] \in Range(ds_out)

\* run() dropped rows of a stream with a trade at an inner tick, and kept the
\* row of that tick
C10_Witness ==
    /\ ds_ran
    /\ 2 \in ds_trade_dts
    /\ Len(ds_rows) >= 4
    /\ Len(ds_out) < Len(ds_rows)
    /\ ds_rows[2] \in Range(ds_out)

\* a is b with some elements left out
RECURSIVE IsSubseq(_, _)
IsSubseq(a, b) ==
    IF a = <<>> THEN TRUE
    ELSE IF b = <<>> THEN FALSE
    ELSE IF Head(a) = Head(b) THEN IsSubseq(Tail(a), Tail(b))
    ELSE IsSubseq(a, Tail(b))

\* the rows of a stream file, as the dicts that were written
StreamRows(k) == RowCells(DataRows(stream_file[k]))

\* the rows a step packs into the buffer of a kind
NewlyPacked(k) == SubSeq(packed'[k], Len(packed[k]) + 1, Len(packed'[k]))

\* every packed row is in the buffer or went to the stream before the rows
\* packed after it: the buffer is the tail of the packed rows and the rows
\* before it are in the stream, in pack order
C11_NoRowLost ==
    \A k \in Kinds :
        LET n == Len(packed[k]) - Len(obs_slices[k])
        IN /\ n >= 0
           /\ obs_slices[k] = SubSeq(packed[k], n + 1, Len(packed[k]))
           /\ IsSubseq(SubSeq(packed[k], 1, n), StreamRows(k))

\* a step leaves the buffer of a kind as it is (with the rows it packs), or
\* empties it after appending every row of it to the stream
C11_BufferKept ==
    \A k \in Kinds :
        LET buf == obs_slices[k] \o NewlyPacked(k)
        IN \/ obs_slices'[k] = buf
           \/ /\ obs_slices'[k] = <<>>
              /\ StreamRows(k)' = StreamRows(k) \o buf

\* C11: a flush attempt that fails with an I/O error leaves the buffer of its
\* kind unchanged, and the rows it retains are written by the next successful
\* flush of the kind: no packed row is lost once a later flush succeeds.
C11_AtLeastOnce == []C11_NoRowLost /\ [][C11_BufferKept]_vars

\* a flush of a kind failed (its rows were counted twice) and a later flush of
\* the kind succeeded: the buffer is empty and every packed row is in the stream
C11_Witness ==
    /\ io_failures > 0
    /\ \E k \in Kinds :
          /\ packed[k] # <<>>
          /\ num_records[k] > Len(packed[k])
          /\ obs_slices[k] = <<>>
          /\ IsSubseq(packed[k], StreamRows(k))

\* C12: after shutdown() of a run in which no flush failed, the buffers of both
\* kinds are empty, the data rows of each persisted stream are exactly the
\* packed rows in pack order, and the num_records of each metadata file is the
\* number of data rows of its stream.
C12_ShutdownComplete ==
    rec_pc = "done" /\ io_failures = 0 =>
        \A k \in Kinds :
            /\ obs_slices[k] = <<>>
            /\ StreamRows(k) = packed[k]
            /\ meta_file[k].exists
            /\ meta_file[k].num_records = Len(DataRows(stream_file[k]))

\* C13: whatever flushes of a kind a run has made, failed attempts and retries
\* included, a persisted stream that holds anything holds the header row once,
\* as its first row.
C13_HeaderOnceFirst ==
    \A k \in Kinds :
        stream_file[k].lines # <<>> =>
            /\ stream_file[k].lines[1].hdr
            /\ Cardinality({i \in 1..Len(stream_file[k].lines) :
                                stream_file[k].lines[i].hdr}) = 1

\* C14: in the driver sequence no Loader reads a persisted stream or its
\* metadata before the Recorder's shutdown() has completed, so once the report
\* is made the record count each Loader holds is the one that shutdown persisted.
C14_LoaderReadsAfterShutdown ==
    /\ \A r \in ldr_reads : r.rec_pc = "done"
    /\ drv_pc = "reported" =>
          \A k \in Kinds :
              ldr_meta[k] = [tag |-> "num", v |-> meta_file[k].num_records]

\* C15: a Loader that finds no metadata file for its stream reports the true row
\* count of the stream (found by scanning it) and does not fail.
C15_MissingMetaScanned ==
    \A r \in ldr_reads :
        r.file = "meta" /\ ~r.found =>
            ldr_meta[r.kind] = [tag |-> "num", v |-> Len(DataRows(stream_file[r.kind]))]

DistinctDts(rows) ==
    \A i, j \in 1..Len(rows) : i # j => rows[i].dt # rows[j].dt

\* the portfolio value of the row stamped d
ValueAt(rows, d) == PV(CHOOSE r \in Range(rows) : r.dt = d)

\* (value at the latest timestamp - value at the earliest) / value at the
\* earliest x 100, to four decimals; no value when the earliest one is zero
TotalReturnOf(rows) ==
    LET dts == {rows[i].dt : i \in 1..Len(rows)}
        first == ValueAt(rows, SetMin(dts))
        last == ValueAt(rows, SetMax(dts))
    IN IF first = 0 THEN Null
       ELSE Num(RoundTo(Rat((last - first) * 100, first), 4))

\* C16: for rows with distinct timestamps, fed in any order within and across
\* pages, TotalReturn's result is (value at the latest timestamp - value at the
\* earliest timestamp) / value at the earliest timestamp x 100: it depends on
\* the values at the two extreme timestamps only, not on the arrival order.
C16_TotalReturnByExtremes ==
    OrdRows # <<>> /\ DistinctDts(OrdRows) =>
        ResEq(TotalReturnResult(ord_tr), TotalReturnOf(OrdRows))

\* three rows of distinct timestamps fed in two or more pages, the latest one
\* first and the earliest one last, with a return that is not zero
C16_Witness ==
    /\ Len(ord_pages) >= 2
    /\ Len(OrdRows) = 3
    /\ DistinctDts(OrdRows)
    /\ OrdRows[1].dt > OrdRows[2].dt
    /\ OrdRows[3].dt < OrdRows[2].dt
    /\ TotalReturnResult(ord_tr).tag = "num"
    /\ TotalReturnResult(ord_tr).v # RInt(0)

\* the buys of a ticker among rows, in the order of the rows
BuysOf(rows, tk) == SelectSeq(rows, LAMBDA r : r.a_type = "buy" /\ r.ticker = tk)

\* the sells of ticker tk among the first i rows that found an unmatched buy
\* of tk before them
RECURSIVE Matched(_, _, _)
Matched(rows, tk, i) ==
    IF i = 0 THEN 0
    ELSE LET before == Matched(rows, tk, i - 1)
         IN IF /\ rows[i].a_type = "sell"
               /\ rows[i].ticker = tk
               /\ Len(BuysOf(SubSeq(rows, 1, i - 1), tk)) > before
            THEN before + 1
            ELSE before

\* strict FIFO over rows in time order: the n-th matched sell of a ticker is
\* paired with the n-th buy of the ticker; the durations in the order of the
\* sells
RECURSIVE FifoDurations(_, _)
FifoDurations(rows, i) ==
    IF i = 0 THEN <<>>
    ELSE LET prev == FifoDurations(rows, i - 1)
         IN IF /\ rows[i].a_type = "sell"
               /\ Matched(rows, rows[i].ticker, i) > Matched(rows, rows[i].ticker, i - 1)
            THEN Append(prev,
                        rows[i].dt
                        - BuysOf(rows, rows[i].ticker)[Matched(rows, rows[i].ticker, i)].dt)
            ELSE prev

SeriesOf(rows) ==
    [t \in {rows[i].dt : i \in 1..Len(rows)} |->
        SetMax({0} \cup {PV(rows[i]) : i \in {j \in 1..Len(rows) : rows[j].dt = t}})]

\* the running peak of a series at t: the largest value at or before t
PeakAt(series, t) == SetMax({series[u] : u \in {w \in DOMAIN series : w <= t}})

\* (value - running peak) / running peak x 100 at the points of a series whose
\* running peak is not zero
DrawdownsOf(series) ==
    {RMul(Rat(series[t] - PeakAt(series, t), PeakAt(series, t)), RInt(100)) :
        t \in {u \in DOMAIN series : PeakAt(series, u) # 0}}

C19_PagesAreTheStream ==
    \A k \in Kinds :
        ldr_out[k].tag # "unread" /\ DataRows(stream_file[k]) # <<>> =>
            /\ ldr_out[k].tag = "pages"
            /\ Flatten(ldr_out[k].v) = StreamRows(k)
            /\ \A i \in 1..Len(ldr_out[k].v) :
                  /\ Len(ldr_out[k].v[i]) <= DriverBatchSize
                  /\ i < Len(ldr_out[k].v) => Len(ldr_out[k].v[i]) = DriverBatchSize

\* the values the records of a pool hold for column c of ticker tk's row: those
\* of the records bound to tk and of the records bound to no ticker
PooledValues(pool, tk, c) ==
    UNION {UNION {{pool[i].obs[n].json[j][2] :
                     j \in {f \in 1..Len(pool[i].obs[n].json) :
                              /\ GetFieldName(pool[i].obs[n].json[f][1], pool[i].pfx) = c
                              /\ pool[i].obs[n].ticker \in {None, tk}}} :
                  n \in 1..Len(pool[i].obs)} :
           i \in 1..Len(pool)}

\* what a pack() step does for one kind: one new row per known ticker, in the
\* order of the tickers, over the declared columns; a cell holds a value pooled
\* for its ticker and column, and is empty when there is none
PackMerges(k) ==
    /\ obs_pool'[k] = <<>>
    /\ \E new \in {NewlyPacked(k)} :
          /\ Len(new) = Len(Tickers)
          /\ \A i \in 1..Len(Tickers) :
                /\ DOMAIN new[i] = ObsFieldNames[k]
                /\ \A c \in ObsFieldNames[k] :
                      \E pooled \in {PooledValues(obs_pool[k], Tickers[i], c)} :
                          IF pooled = {} THEN new[i][c] = None
                          ELSE new[i][c] \in pooled

\* C20: a pack() call merges the records pooled since the previous pack into
\* one row per known ticker: a field of a record bound to a ticker is written
\* only into that ticker's row, a field of an unbound record into every row,
\* every declared field absent from the pool is empty, and all pools are empty
\* when pack() returns.
C20_PackMergesPool == [][tick' = tick + 1 => \A k \in Kinds : PackMerges(k)]_vars

\* a pack() of a pool holding a capital record (bound to no ticker) and a stock
\* record of the first ticker: the close is in the first ticker's row only, the
\* cash in both rows, and the trade rows are empty
C20_Witness ==
    /\ tick = 1
    /\ \A k \in Kinds : obs_pool[k] = <<>>
    /\ Len(packed["STATE"]) = 2
    /\ packed["STATE"][1][<<"s", "close">>] = "1"
    /\ packed["STATE"][2][<<"s", "close">>] = None
    /\ packed["STATE"][1][<<"cap", "cash">>] = "1"
    /\ packed["STATE"][2][<<"cap", "cash">>] = "1"
    /\ packed["TRADE"][1][<<"a", "type">>] = None

\* the sum of a sequence of rationals
RECURSIVE RSum(_)
RSum(seq) ==
    IF seq = <<>> THEN RInt(0)
    ELSE RAdd(RSum(SubSeq(seq, 1, Len(seq) - 1)), seq[Len(seq)])

\* the arithmetic mean of a non-empty sequence of integers
MeanOf(values) ==
    RDiv(RSum([i \in 1..Len(values) |-> RInt(values[i])]), RInt(Len(values)))

\* the population variance of a non-empty sequence of integers: the mean of
\* the squared deviations from the mean
SquaredDeviation(value, mean) ==
    RMul(RSub(RInt(value), mean), RSub(RInt(value), mean))

MeanSquaredDeviation(values, mean) ==
    RDiv(RSum([i \in 1..Len(values) |-> SquaredDeviation(values[i], mean)]),
         RInt(Len(values)))

PopulationVarianceOf(values) == MeanSquaredDeviation(values, MeanOf(values))

\* C21: after the values x1..xn were fed to a Welford accumulator, count = n,
\* mean is the arithmetic mean of the values, and variance() is the population
\* variance of the values (which is M2 / count) for n > 1 and 0 for n <= 1.
C21_WelfordMoments ==
    LET n == Len(wel_values)
    IN /\ wel.count = n
       /\ n >= 1 => wel.mean = MeanOf(wel_values)
       /\ n > 1 => /\ WelfordVariance(wel) = PopulationVarianceOf(wel_values)
                   /\ WelfordVariance(wel) = RDiv(wel.m2, RInt(n))
       /\ n <= 1 => WelfordVariance(wel) = RInt(0)

\* the values 1, 2, 3, 4, 5 were fed: the mean is 3 and the variance 2
C21_Witness ==
    /\ wel_values = <<1, 2, 3, 4, 5>>
    /\ wel.mean = RInt(3)
    /\ WelfordVariance(wel) = RInt(2)

\* the accumulators whose result() runs _compute_returns on the shared
\* StreamingReturnsAccumulator
ReturnsNames ==
    {"_streaming_returns_stats", "sharpe_ratio", "sortino_ratio",
     "annualised_volatility_pct"}

\* the consecutive pairs of a sorted series whose earlier value is positive
PositivePairs(sorted_series) ==
    Cardinality({i \in 2..Len(sorted_series) : sorted_series[i - 1][2] > 0})

\* C22: the period returns are fed to the Welford accumulators exactly once:
\* after every call of sharpe(), sortino(), volatility() or result(), however
\* many were made before, the count of all-returns and the number of return
\* periods used for annualization equal the number of consecutive pairs of the
\* sorted series whose earlier value is positive.
C22_ReturnsFedOnce ==
    [][\A name \in ReturnsNames :
          acc_kind = "STATE" /\ AccResult(name) =>
              /\ acc_set'.sr.all_returns.count
                    = PositivePairs(SortedSeries(acc_set'.sr.pv_series))
              /\ acc_set'.sr.num_returns
                    = PositivePairs(SortedSeries(acc_set'.sr.pv_series))]_vars

\* C23: after the same pages, the series StreamingReturns computes returns
\* from (its sorted _pv_series) is the sorted PortfolioValueSeries: one value
\* per distinct timestamp, the largest observed at it, also when the rows of a
\* timestamp are split across two pages; so the number of return periods is at
\* most the number of distinct timestamps minus one.
C23_ReturnsSeriesIsPvSeries ==
    acc_kind = "STATE" =>
        /\ SortedSeries(acc_set.sr.pv_series) = GetSeries(acc_set.pv_by_time)
        /\ acc_rows # <<>> =>
              PositivePairs(SortedSeries(acc_set.sr.pv_series))
                  <= Cardinality({acc_rows[i].dt : i \in 1..Len(acc_rows)}) - 1

\* the record o writes the output column c of the row of ticker tk
WritesCell(o, tk, c) ==
    /\ o.ticker \in Unbound \/ o.ticker = tk
    /\ \E j \in 1..Len(o.json) : GetFieldName(o.json[j][1], o.pfx) = c

\* the value the record o holds for the output column c
CellValue(o, c) ==
    o.json[CHOOSE j \in 1..Len(o.json) : GetFieldName(o.json[j][1], o.pfx) = c][2]

\* the positions, in the order of the observe() calls, of the records that
\* write column c of ticker tk's row
WritersOf(tk, c) == {i \in 1..Len(pk_seen) : WritesCell(pk_seen[i], tk, c)}

NewPages(before, after) == SubSeq(after, Len(before) + 1, Len(after))

\* the rows of a stream that carry the ticker t, in stream order
RowsOfTicker(rows, t) == SelectSeq(rows, LAMBDA r : r.ticker = t)

\* what a run() that returns a report has fed of the stream of kind k
FedTheStream(k) ==
    /\ Flatten(NewPages(eng_metrics.fed[k], eng_metrics'.fed[k]))
          = eng_stream[k].rows
    /\ \A t \in TickerSet :
          Flatten(NewPages(eng_metrics.fed_by_ticker[k][t],
                           eng_metrics'.fed_by_ticker[k][t]))
              = RowsOfTicker(eng_stream[k].rows, t)

\* the sections of a report hold one result per accumulator that is not
\* internal
SectionsComplete(report) ==
    /\ Len(report.cumulative)
          = Cardinality(Reportable("STATE")) + Cardinality(Reportable("TRADE"))
    /\ \A t \in TickerSet :
          Len(report.by_ticker[t])
              = Cardinality(Reportable("STATE")) + Cardinality(Reportable("TRADE"))

\* C25: a run() of the Report Engine that returns a report has fed every row
\* of each stream exactly once and in stream order to the aggregate
\* accumulators, and to each entity's accumulators exactly that entity's rows
\* in stream order; the cumulative and the per-entity section of the report
\* hold a result for every accumulator that is not internal and for no other.
C25_FeedsEveryRowOnce ==
    [][Len(eng_reports') = Len(eng_reports) + 1
       /\ ~eng_reports'[Len(eng_reports')].raised =>
            /\ \A k \in Kinds : FedTheStream(k)
            /\ SectionsComplete(eng_reports'[Len(eng_reports')])]_vars

\* a run() over a state stream of one row of each ticker: two pages were fed
\* to the aggregate set and one to the set of each ticker
C25_Witness ==
    /\ Len(eng_reports) = 1
    /\ ~eng_reports[1].raised
    /\ Len(eng_stream["STATE"].rows) = 2
    /\ eng_stream["STATE"].rows[1].ticker # eng_stream["STATE"].rows[2].ticker
    /\ Len(eng_metrics.fed["STATE"]) = 2
    /\ \A t \in TickerSet : Len(eng_metrics.fed_by_ticker["STATE"][t]) = 1

\* the positions in the stream of the rows of chunk c (0-based)
ChunkFirst(c) == c * ds_chunk_size + 1

ChunkLast(c) == Min((c + 1) * ds_chunk_size, Len(ds_rows))

\* the rows of chunk c that are not mandatory, as stream positions in order
OtherOf(c) ==
    LET total_chunks ==
            Max(1, (TotalN(ds_rows, ds_meta) + ds_chunk_size - 1) \div ds_chunk_size)
    IN Ascending((ChunkFirst(c)..ChunkLast(c))
                 \ MustKeep(ds_rows, ds_trade_dts, ChunkFirst(c), ChunkLast(c),
                            c = 0, c = total_chunks - 1))

\* the budget of chunk c for rows that are not mandatory:
\* floor(chunk_rows / total_rows * remaining_budget), capped at their number
BudgetOf(c) ==
    Min(((ChunkLast(c) - ChunkFirst(c) + 1)
            * Max(0, ds_target_size - 2 - Cardinality(ds_trade_dts)))
           \div TotalN(ds_rows, ds_meta),
        Len(OtherOf(c)))

\* the stream positions of the rows written to plot_data.csv
KeptPositions == {ds_out[j].dt : j \in 1..Len(ds_out)}

\* what the claim asks of one chunk, given its non-mandatory rows and budget
C26_ChunkOk(other, budget) ==
    /\ other # <<>> /\ budget <= 2 =>
          KeptPositions \cap Range(other) = {other[1], other[Len(other)]}
    /\ Len(other) <= budget => Range(other) \subseteq KeptPositions

\* C26: when the budget of a chunk for non-mandatory rows is 0, 1 or 2,
\* exactly the first and the last non-mandatory row of the chunk are kept of
\* its non-mandatory rows; when the non-mandatory rows are no more than the
\* budget, all of them are kept.  Stated for the runs whose row total is the
\* stream's row count (a metadata file that is right, or none).
C26_SmallBudgetKeepsEnds ==
    ds_ran /\ TotalN(ds_rows, ds_meta) = Len(ds_rows) =>
        \A c \in 0..(NumChunks(ds_rows, ds_chunk_size) - 1) :
            C26_ChunkOk(OtherOf(c), BudgetOf(c))

\* the bounds of the interior bucket b (0-based) of n points for a target:
\* the points lo..hi-1 with lo = floor(1 + b * (n - 2) / (target - 2))
BucketLo(b, n, target) == 1 + (b * (n - 2)) \div (target - 2)

BucketHi(b, n, target) == 1 + ((b + 1) * (n - 2)) \div (target - 2)

\* the points whose centroid closes the triangles of bucket b: those of the
\* next bucket, the last point alone after the last interior bucket
NextBucket(b, n, target) ==
    IF b = target - 3 THEN {n - 1}
    ELSE BucketLo(b + 1, n, target)..(BucketHi(b + 1, n, target) - 1)

\* twice the area of the triangle (point prev, point i, centroid of the points
\* S), times the number of points in S
TriangleArea(prev, i, S) ==
    LET RECURSIVE SumOver(_, _)
        SumOver(v, T) ==
            IF T = {} THEN 0
            ELSE v[SetMin(T) + 1] + SumOver(v, T \ {SetMin(T)})
        cnt == Cardinality(S)
        px == lttb_x[prev + 1]
        py == lttb_y[prev + 1]
    IN Abs((lttb_x[i + 1] - px) * (SumOver(lttb_y, S) - cnt * py)
           - (SumOver(lttb_x, S) - cnt * px) * (lttb_y[i + 1] - py))

\* the index chosen for bucket b is in the bucket and is the first of the
\* bucket that reaches the largest area
ChosenOk(b, n, target) ==
    LET chosen == lttb_out[b + 2]
        prev == lttb_out[b + 1]
        S == NextBucket(b, n, target)
    IN /\ chosen \in BucketLo(b, n, target)..(BucketHi(b, n, target) - 1)
       /\ \A j \in BucketLo(b, n, target)..(BucketHi(b, n, target) - 1) :
             /\ TriangleArea(prev, j, S) <= TriangleArea(prev, chosen, S)
             /\ j < chosen => TriangleArea(prev, j, S) < TriangleArea(prev, chosen, S)

\* C27: for n points and a target with n > target > 2, _lttb_indices returns
\* exactly target indices, strictly increasing, the first 0 and the last
\* n - 1, one from each of the target - 2 interior buckets, and in a bucket
\* the first point that reaches the largest triangle area.
C27_LttbSelection ==
    lttb_out # <<-1>> /\ Len(lttb_x) > lttb_target /\ lttb_target > 2 =>
        /\ Len(lttb_out) = lttb_target
        /\ \A i \in 1..(Len(lttb_out) - 1) : lttb_out[i] < lttb_out[i + 1]
        /\ lttb_out[1] = 0
        /\ lttb_out[Len(lttb_out)] = Len(lttb_x) - 1
        /\ \A b \in 0..(lttb_target - 3) : ChosenOk(b, Len(lttb_x), lttb_target)

\* a call with 6 points and target 4 in which the two points of the first
\* bucket reach the same area: the first of them is returned
C27_Witness ==
    /\ lttb_out # <<-1>>
    /\ Len(lttb_x) = 6
    /\ lttb_target = 4
    /\ TriangleArea(0, 1, NextBucket(0, 6, 4)) = TriangleArea(0, 2, NextBucket(0, 6, 4))
    /\ TriangleArea(0, 1, NextBucket(0, 6, 4)) > 0
    /\ lttb_out[2] = 1

\* the packed rows of each kind are one per known ticker and tick, and so are
\* the rows of each stream after the shutdown of a run without a failed flush
C28_RowCounts ==
    \A k \in Kinds :
        /\ Len(packed[k]) = tick * Len(Tickers)
        /\ rec_pc = "done" /\ io_failures = 0 =>
              Len(StreamRows(k)) = tick * Len(Tickers)

\* a pack() step appends one row per known ticker to the buffer of each kind,
\* all of them empty for a kind whose pool is empty
C28_PackAppends ==
    tick' = tick + 1 =>
        \A k \in Kinds : \E new \in {NewlyPacked(k)} :
            /\ Len(new) = Len(Tickers)
            /\ obs_slices'[k] \in {<<>>, obs_slices[k] \o new}
            /\ obs_pool[k] = <<>> => \A i \in 1..Len(new) : new[i] = EmptyRow[k]

\* C28: every pack() call appends exactly one row per known entity to the
\* buffer of each observation kind, also for a kind with no record pooled in
\* the tick: a tick without a trade appends one all-empty row per entity to
\* the trade buffer, and the trade stream holds ticks x entities rows, not one
\* row per trade.
C28_OneRowPerEntityAndKind == []C28_RowCounts /\ [][C28_PackAppends]_vars

\* a finished run of two ticks in which no trade was observed and no flush
\* failed: the trade stream holds four rows, all of them empty
C28_Witness ==
    /\ rec_pc = "done"
    /\ io_failures = 0
    /\ tick = 2
    /\ Len(StreamRows("TRADE")) = 2 * Len(Tickers)
    /\ \A i \in 1..Len(StreamRows("TRADE")) : StreamRows("TRADE")[i] = EmptyRow["TRADE"]
    /\ \E i \in 1..Len(StreamRows("STATE")) : StreamRows("STATE")[i] # EmptyRow["STATE"]

\* C29: exec_action is atomic: whenever it returns False or raises (a sell of
\* more shares than are held, or of an entity with no holding), the cash and
\* the holdings are the same as before the call.
C29_ExecActionAtomic ==
    pm_last.out \in {"False", "raise"} =>
        /\ pm_cash = pm_last.cash
        /\ pm_holdings = pm_last.holdings

\* the last call was a sell of exactly the shares held of its ticker
SoldOut ==
    /\ pm_last.n > 0
    /\ pm_last.action.type = "sell"
    /\ pm_last.action.ticker \in DOMAIN pm_last.holdings
    /\ pm_last.holdings[pm_last.action.ticker].num_shares = pm_last.action.num_shares

\* C30: after a sell that brings the held shares of an entity to zero,
\* exec_action returns True and the entity is no longer in the holdings map;
\* every holding in the map has a share count greater than zero after any
\* sequence of buys and sells.
C30_NoEmptyHolding ==
    /\ SoldOut => pm_last.out = "True" /\ pm_last.action.ticker \notin DOMAIN pm_holdings
    /\ \A t \in DOMAIN pm_holdings : pm_holdings[t].num_shares > 0

====
